---- MODULE Spec2Model ----
(***************************************************************************)
(* Pytheas table extractor: PYTHEAS.extract_tables, discover_next_table,   *)
(* merge_tables, predict_subheaders(_new) and the top-down last-data-line  *)
(* walk of src/pytheas/pytheas.py, over small grids of string cells.       *)
(*                                                                         *)
(* Rows are indexed from 0 as in the source; a grid is a function          *)
(* 0..n-1 -> row, a row a tuple of three cells.  The results of the      *)
(* rule engine (fired rules, cell scores, row confidences) are inputs of   *)
(* the extractor: they are drawn with \E where the source consumes them.   *)
(***************************************************************************)
EXTENDS Integers, Sequences, FiniteSets, TLC

(* ------------------------------ bounds -------------------------------- *)
\* longest grid over all row kinds
MaxRows == 3
\* longest block of data rows leading a grid
MaxLead == 3
\* row confidences are drawn from 0..MaxConf, MaxConf standing for 1.0
MaxConf == 1
\* longest part of a grid made of one part, a blank row and the part again
MaxPart == 2

(* ------------------------------ cells --------------------------------- *)
NaN == "nan"

BlankRow  == <<NaN, NaN, NaN>>
HeaderRow == <<"name", "age", "city">>
DataRow   == <<"alice", "30", "paris">>
SubRow    == <<"region", NaN, NaN>>
AggRow    == <<"total", "70", NaN>>
FootRow   == <<"note", NaN, NaN>>
\* a row that starts with a footnote keyword and is filled in every column
WideFootRow == <<"note", "30", "paris">>
\* a row whose only cell holds an assignment
EqualsRow == <<"x=1", NaN, NaN>>

RowKinds  == {BlankRow, HeaderRow, DataRow, SubRow, AggRow, FootRow}

\* str(cell).lower() in ["", "none", "nan"]
IsNullCell(c) == c \in {"", "none", NaN}
\* first_value.lower() in pat_util.null_equivalent_values
IsNullEquivalent(c) == c \in {"", "none", NaN, "null"}
\* first_value.lower().find(aggregation_phrase[0]) > -1
HasAggregationPhrase(c) == c \in {"total"}
\* aggregation_rows[row] = {value, aggregation_function, aggregation_phrase, aggregation_label}
AggregationEntry(c) ==
    [value |-> c, aggregation_function |-> "sum",
     aggregation_phrase |-> "total", aggregation_label |-> ""]
\* contains_number(cells) (table_classifier_utilities)
contains_number(row) == \E c \in 1..Len(row) : row[c] \in {"30", "70"}
\* first_value.startswith(footnote_keyword)
StartsWithFootnoteKeyword(c) == c \in {"note"}
\* len(first_value) > 5 and first_value[0] in "1a" and first_value[1] in " ./)]:"
StartsWithEnumerator(c) == c \in {}
\* len(first_value) > 5 and first_value = "(" digit-or-a ")" ...
StartsWithParenDigit(c) == c \in {}
\* len(first_value) > 5 and first_value = "(" 1-or-a ")" ...
StartsWithParenOne(c) == c \in {}
\* "=" in first_value
ContainsEquals(c) == c \in {"x=1"}
\* first_value.startswith("(")
StartsWithParen(c) == c \in {}

\* ",".join(row.apply(str).tolist())
JoinRow(row) == row[1] \o "," \o row[2] \o "," \o row[3]

\* row.isnull().all()
AllNull(row) == \A c \in 1..Len(row) : row[c] = NaN
\* cand_data.iloc[:, 1:].isnull().all(1)
PayloadNull(row) == \A c \in 2..Len(row) : row[c] = NaN

(* ----------------------------- helpers -------------------------------- *)
Min(S) == CHOOSE m \in S : \A y \in S : m <= y
Max(S) == CHOOSE m \in S : \A y \in S : m >= y

\* set(range(a, b))
Range(a, b) == {i \in a..(b - 1) : TRUE}
\* list(range(a, b))
RangeList(a, b) == IF b > a THEN [i \in 1..(b - a) |-> a + i - 1] ELSE <<>>

RECURSIVE SortedList(_)
\* sorted(list(S))
SortedList(S) ==
    IF S = {} THEN <<>>
    ELSE LET m == Min(S) IN <<m>> \o SortedList(S \ {m})

ToSet(s) == {s[i] : i \in 1..Len(s)}

None == [none |-> TRUE]

(* ------------------------------ state --------------------------------- *)
VARIABLES
    grid,                \* file_dataframe_trimmed
    pc,                  \* position in extract_tables
    in_loop,             \* the while loop of extract_tables has been entered
    file_offset,
    table_counter,
    discovered_tables,   \* SortedDict table_counter -> table record
    discovered_table,    \* the variable discovered_table of extract_tables
    found,               \* the value discover_next_table returned last
    headers_discovered,  \* dict row -> joined string
    call,                \* locals of the running discover_next_table
    walk,                \* locals of the running predict_last_data_line_top_down
    fuzzy_rules,         \* the rule catalogue: rule id -> weight
    parameters,
    data_rules_fired,    \* per row: cells (agreements, ...) and line events
    not_data_rules_fired,
    label_confidences,   \* per row: <<data_conf, not_data_conf>>
    annotations,         \* the variable annotations of infer_annotations_from_df
    raised,              \* the exception raised in the try block, if any
    result,              \* what the call of infer_annotations_from_df gave
    weights_file,        \* the document save_weights or the training wrote
    loaded               \* fuzzy_rules of the object that called load_weights

extractVars == <<grid, pc, in_loop, file_offset, table_counter, discovered_tables,
                 discovered_table, found, headers_discovered, call, walk>>
scoreVars == <<fuzzy_rules, parameters, data_rules_fired, not_data_rules_fired,
               label_confidences>>
callVars == <<annotations, raised, result>>
weightVars == <<weights_file, loaded>>
vars == <<extractVars, scoreVars, callVars, weightVars>>
\* the state of extract_tables apart from the position in it
extractVars_but_pc == <<grid, in_loop, file_offset, table_counter, discovered_tables,
                        discovered_table, found, headers_discovered, call, walk>>

\* file_dataframe_trimmed.shape[0]
NumRows == Cardinality(DOMAIN grid)
Rows == DOMAIN grid
\* blank_lines = list(file_dataframe[file_dataframe.isnull().all(axis=1)].index)
blank_lines == {r \in Rows : AllNull(grid[r])}

NoCall == [active |-> FALSE]
NoWalk == [active |-> FALSE]

\* the grids: up to MaxLead data rows, then up to MaxRows rows of any kind
ShortGrids == UNION {[0..(k - 1) -> RowKinds] : k \in 0..MaxRows}
LeadBy(lead, tail) ==
    [i \in 0..(lead + Cardinality(DOMAIN tail) - 1) |->
        IF i < lead THEN DataRow ELSE tail[i - lead]]
\* a part, a blank row and the part again
Stacked(part) ==
    LET n == Cardinality(DOMAIN part) IN
    [i \in 0..(2 * n) |->
        IF i < n THEN part[i] ELSE IF i = n THEN BlankRow ELSE part[i - n - 1]]
\* the rows that close a grid with a remark
RemarkKinds == {WideFootRow, EqualsRow, DataRow, BlankRow}
RemarkGrids == UNION {[0..(k - 1) -> RemarkKinds] : k \in 1..MaxPart}
InputGrids ==
    {LeadBy(lead, tail) : lead \in 0..MaxLead, tail \in ShortGrids}
    \cup {Stacked(part) : part \in UNION {[0..(k - 1) -> RowKinds] : k \in 1..MaxPart}}
    \cup {LeadBy(lead, tail) : lead \in 0..MaxLead, tail \in RemarkGrids}

(* -------------------- rule catalogue and parameters -------------------- *)
\* scores and weights are fixed-point numbers of two decimals: k is k / Scale
Scale == 100
\* rows handed to get_class_confidences in one call
MaxScoreRows == 3

\* the weight of a rule: <<w>>, or <<>> for None
NoWeight == <<>>
Weight(w) == <<w>>

\* a trained catalogue: PYTHEAS.fuzzy_rules with the weights train_rules gives
TrainedRules ==
    [cell |->
        [data |-> [VALUE_REPEATS_ONCE_BELOW |-> Weight(50),
                   CONSISTENT_NUMERIC |-> Weight(90),
                   CONSISTENT_D_STAR |-> NoWeight],
         not_data |-> [First_FW_Symbol_disagrees |-> Weight(70),
                       CC |-> NoWeight]],
     line |->
        [data |-> [AGGREGATION_TOKEN_IN_FIRST_VALUE_OF_ROW |-> Weight(60),
                   ONE_NULL_EQUIVALENT_ON_LINE |-> Weight(70)],
         not_data |-> [UP_TO_FIRST_COLUMN_COMPLETE_CONSISTENTLY |-> Weight(70),
                       ADJACENT_ARITHMETIC_SEQUENCE_2 |-> NoWeight,
                       ADJACENT_ARITHMETIC_SEQUENCE_3 |-> Weight(90)]]]

\* a second catalogue: weights on the lower bounds, below them and below zero
\* (rule_weight is a difference of two rates, in -1..1)
BoundaryRules ==
    [cell |->
        [data |-> [VALUE_REPEATS_ONCE_BELOW |-> Weight(40),
                   CONSISTENT_NUMERIC |-> Weight(0 - 20),
                   CONSISTENT_D_STAR |-> NoWeight],
         not_data |-> [First_FW_Symbol_disagrees |-> Weight(60),
                       CC |-> Weight(90)]],
     line |->
        [data |-> [AGGREGATION_TOKEN_IN_FIRST_VALUE_OF_ROW |-> Weight(40),
                   ONE_NULL_EQUIVALENT_ON_LINE |-> Weight(70)],
         not_data |-> [UP_TO_FIRST_COLUMN_COMPLETE_CONSISTENTLY |-> Weight(60),
                       ADJACENT_ARITHMETIC_SEQUENCE_2 |-> Weight(80),
                       ADJACENT_ARITHMETIC_SEQUENCE_3 |-> NoWeight]]]

Catalogues == {TrainedRules, BoundaryRules}

\* PYTHEAS.__init__: the parameters the scoring reads
DefaultParameters ==
    [impute_nulls |-> TRUE,
     summary_population_factor |-> TRUE,
     weight_input |-> "values_and_lines",
     weight_lower_bound |-> 40,
     not_data_weight_lower_bound |-> 60,
     p |-> 30,
     max_summary_strength |-> 6,
     max_line_depth |-> 30]

\* what the rule engine recorded for one cell: data_rules_fired[row][column]
\* and not_data_rules_fired[row][column]
DataCells ==
    {[agreements |-> <<"VALUE_REPEATS_ONCE_BELOW", "CONSISTENT_D_STAR",
                       "CONSISTENT_NUMERIC">>,
      summary_strength |-> 2, null_equivalent |-> FALSE, aggregate |-> FALSE],
     [agreements |-> <<"CONSISTENT_NUMERIC">>,
      summary_strength |-> 1, null_equivalent |-> FALSE, aggregate |-> FALSE],
     [agreements |-> <<"VALUE_REPEATS_ONCE_BELOW">>,
      summary_strength |-> 2, null_equivalent |-> FALSE, aggregate |-> FALSE],
     [agreements |-> <<>>,
      summary_strength |-> 0, null_equivalent |-> TRUE, aggregate |-> FALSE],
     [agreements |-> <<"CONSISTENT_D_STAR">>,
      summary_strength |-> 0, null_equivalent |-> FALSE, aggregate |-> TRUE]}
NotDataCells ==
    {[disagreements |-> <<>>, disagreement_summary_strength |-> 0],
     [disagreements |-> <<"First_FW_Symbol_disagrees", "CC">>,
      disagreement_summary_strength |-> 2]}
\* the last column of the scored rows: a data cell or a null cell
LastDataCells ==
    {c \in DataCells : Len(c.agreements) = 3 \/ c.null_equivalent}
\* the line events of a row: none, or two data events and two not-data events
LineEvents ==
    {[data |-> <<>>, not_data |-> <<>>],
     [data |-> <<"AGGREGATION_TOKEN_IN_FIRST_VALUE_OF_ROW",
                 "ONE_NULL_EQUIVALENT_ON_LINE">>,
      not_data |-> <<"UP_TO_FIRST_COLUMN_COMPLETE_CONSISTENTLY",
                     "ADJACENT_ARITHMETIC_SEQUENCE_2">>]}

\* the extractor is checked with a trained catalogue and no scored rows
ScoreIdle ==
    /\ fuzzy_rules = TrainedRules
    /\ parameters = DefaultParameters
    /\ data_rules_fired = <<>>
    /\ not_data_rules_fired = <<>>
    /\ label_confidences = <<>>

NoResult == [returned |-> FALSE]
CallIdle ==
    /\ annotations = None
    /\ raised = "none"
    /\ result = NoResult
    /\ weights_file = None
    /\ loaded = None

Init ==
    /\ ScoreIdle
    /\ CallIdle
    /\ grid \in InputGrids
    /\ pc = "discover"
    /\ in_loop = FALSE
    /\ file_offset = 0
    /\ table_counter = 1
    /\ discovered_tables = <<>>
    /\ discovered_table = None
    /\ found = None
    /\ headers_discovered = <<>>
    /\ call = NoCall
    /\ walk = NoWalk

(* ------------------- predict_subheaders(_new) -------------------------- *)
\* cand_subhead_indexes on entry: predict_subheaders_new adds the rows of
\* cand_data whose payload beyond the first column is null
InitialCandidates(cand_data, candidates, is_new) ==
    IF is_new
    THEN candidates \cup {r \in cand_data : PayloadNull(grid[r])}
    ELSE candidates

\* aggregation rows by the first-cell phrase; predict_subheaders_new also
\* requires contains_number(row[1:])
AggregationRows(cand_data, is_new) ==
    {r \in cand_data :
        /\ HasAggregationPhrase(grid[r][1])
        /\ (is_new => contains_number(Tail(grid[r])))}

FirstColumnDataValues(cand_data, candidates, is_new) ==
    {grid[r][1] : r \in
        {q \in cand_data :
            /\ q \notin AggregationRows(cand_data, is_new)
            /\ ~IsNullEquivalent(grid[q][1])
            /\ q \notin InitialCandidates(cand_data, candidates, is_new)}}

\* candidate_subheaders.keys()
CandidateSubheaders(cand_data, candidates, is_new) ==
    {r \in InitialCandidates(cand_data, candidates, is_new) :
        /\ grid[r][1] \notin {NaN, "none", ""}
        /\ r \notin AggregationRows(cand_data, is_new)}

\* discover_aggregation_scope (table_classifier_utilities): the aggregation
\* rows are kept, no subheader is predicted yet and no scope is assigned
discover_aggregation_scope(aggregation_rows, candidate_subheaders) ==
    [aggregation_rows |-> aggregation_rows,
     predicted_pat_sub_headers |-> <<>>,
     cand_subhead_indexes |-> SortedList(candidate_subheaders),
     subheader_scope |-> <<>>]

RECURSIVE PromoteSubheaders_Unscored(_, _, _, _, _, _)
\* PromoteSubheaders without the comparison of the two scores
PromoteSubheaders_Unscored(todo, predicted, first_column_data_values, pat_headers, scored_data, last_index) ==
    IF todo = <<>> THEN predicted
    ELSE LET r == Head(todo)
             first_value == grid[r][1]
             next ==
                 IF first_value \in {"", NaN, "none", "null"} THEN predicted
                 ELSE IF first_value \in first_column_data_values THEN predicted
                 ELSE IF (r - 1) \in blank_lines \/ (r - 1) \in pat_headers
                      THEN Append(predicted, r)
                 ELSE IF /\ (r - 1) \in ToSet(predicted)
                         /\ (r - 2) \in ToSet(predicted) THEN predicted
                 ELSE IF r # last_index THEN Append(predicted, r)
                 ELSE predicted
         IN PromoteSubheaders_Unscored(Tail(todo), next, first_column_data_values,
                                       pat_headers, scored_data, last_index)

RECURSIVE PromoteSubheaders(_, _, _, _, _, _)
\* the loop over cand_subhead_indexes; scored_data holds the candidates whose
\* cell_data_score > cell_not_data_score
PromoteSubheaders(todo, predicted, first_column_data_values, pat_headers, scored_data, last_index) ==
    IF todo = <<>> THEN predicted
    ELSE LET r == Head(todo)
             first_value == grid[r][1]
             next ==
                 IF first_value \in {"", NaN, "none", "null"} THEN predicted
                 ELSE IF first_value \in first_column_data_values THEN predicted
                 ELSE IF (r - 1) \in blank_lines \/ (r - 1) \in pat_headers
                      THEN Append(predicted, r)
                 ELSE IF r \in scored_data THEN predicted
                 ELSE IF /\ (r - 1) \in ToSet(predicted)
                         /\ (r - 2) \in ToSet(predicted) THEN predicted
                 ELSE IF r # last_index THEN Append(predicted, r)
                 ELSE predicted
         IN PromoteSubheaders(Tail(todo), next, first_column_data_values,
                              pat_headers, scored_data, last_index)

\* subheader_scope[subheader] = list(range(subheader + 1, next subheader or end + 1))
AssignScopes(predicted, scope0, last_index) ==
    LET n == Len(predicted)
        NextFree(i) ==
            {j \in (i + 1)..n : predicted[j] \notin DOMAIN scope0}
        keys == DOMAIN scope0 \cup
                {predicted[i] : i \in {k \in 1..n : k = n \/ NextFree(k) # {}}}
        IndexOf(s) == Min({i \in 1..n : predicted[i] = s})
    IN [s \in keys |->
            IF s \in DOMAIN scope0 THEN scope0[s]
            ELSE LET i == IndexOf(s) IN
                 IF i = n THEN RangeList(s + 1, last_index + 1)
                 ELSE RangeList(s + 1, predicted[Min(NextFree(i))])]

predict_subheaders_common(cand_data, candidates, pat_headers, scored_data, is_new) ==
    LET agg == AggregationRows(cand_data, is_new)
        das == discover_aggregation_scope(
                   agg, CandidateSubheaders(cand_data, candidates, is_new))
        last_index == Max(cand_data)
        predicted == PromoteSubheaders(
                         das.cand_subhead_indexes, das.predicted_pat_sub_headers,
                         FirstColumnDataValues(cand_data, candidates, is_new),
                         pat_headers, scored_data, last_index)
    IN [aggregation_rows |->
            [r \in das.aggregation_rows |-> AggregationEntry(grid[r][1])],
        subheader_scope |-> AssignScopes(predicted, das.subheader_scope, last_index)]

predict_subheaders(cand_data, candidates, pat_headers, scored_data) ==
    predict_subheaders_common(cand_data, candidates, pat_headers, scored_data, FALSE)

predict_subheaders_new(cand_data, candidates, pat_headers, scored_data) ==
    predict_subheaders_common(cand_data, candidates, pat_headers, scored_data, TRUE)

(* ------------------------ discover_next_table -------------------------- *)
\* predict_fdl (table_classifier_utilities): -1, or a non-blank row of the remainder
predict_fdl(offset) == {-1} \cup {r \in Rows \ blank_lines : r >= offset}

\* predict_header_indexes (table_classifier_utilities): the rows from a up to
\* b are the candidate headers, the candidate subheaders (payload beyond the
\* first column null) are pruned out of them and no two of them have the same
\* joined string; the rows from b up to the first data line are the candidate
\* subheaders handed to the subheader predictor
predict_header_indexes(offset, fdl) ==
    {[header |-> {r \in Range(a, b) : ~PayloadNull(grid[r])},
      candidates |-> Range(b, fdl)] :
        <<a, b>> \in {p \in (offset..fdl) \X (offset..fdl) :
                        /\ p[1] <= p[2]
                        /\ \A r \in Range(p[2], fdl) :
                              PayloadNull(grid[r]) /\ r \notin blank_lines
                        /\ \A q, r \in Range(p[1], p[2]) :
                              (/\ q # r
                               /\ ~PayloadNull(grid[q])
                               /\ ~PayloadNull(grid[r]))
                              => JoinRow(grid[q]) # JoinRow(grid[r])}}

(* ----------------------------- merge_tables ---------------------------- *)
\* {**a, **b}
DictUnion(a, b) ==
    [k \in DOMAIN a \cup DOMAIN b |-> IF k \in DOMAIN b THEN b[k] ELSE a[k]]

\* the rows of the tail above its data that are not header rows get an empty scope
merge_tables(table_head, table_tail) ==
    LET promoted == Range(table_tail.top_boundary, table_tail.data_start)
                        \ ToSet(table_tail.header)
        scopes == DictUnion(table_head.subheader_scope, table_tail.subheader_scope)
    IN [table_head EXCEPT
           !.data_end = table_tail.data_end,
           !.subheader_scope =
               [k \in DOMAIN scopes \cup promoted |->
                   IF k \in promoted THEN <<>> ELSE scopes[k]],
           !.aggregation_scope =
               DictUnion(table_head.aggregation_scope, table_tail.aggregation_scope)]

(* ----------------------------- extract_tables -------------------------- *)
\* MergeCondition as the test it replaced: the new data starts right below
\* the previous data_end
MergeCondition_Adjacent(previous, table) ==
    table.data_start = previous.data_end + 1

\* MergeCondition that merges over blank lines only
MergeCondition_BlankGap(previous, table) ==
    Range(previous.data_end + 1, table.data_start) \subseteq blank_lines

\* MergeCondition without the header rows taken out of the gap
MergeCondition_AnyGap(previous, table) ==
    Range(previous.data_end + 1, table.data_start) \subseteq
        (blank_lines \cup Range(table.top_boundary, table.data_start))

\* the rows between the previous data_end and the new data_start are blank
\* lines or rows of the new table that are not header rows
MergeCondition(previous, table) ==
    Range(previous.data_end + 1, table.data_start) \subseteq
        (blank_lines \cup
            (Range(table.top_boundary, table.data_start) \ ToSet(table.header)))

\* footnotes of the previous table once its successor is known
PreviousFootnotes(previous, table) ==
    IF Len(previous.footnotes) > 0
    THEN RangeList(previous.footnotes[1], table.top_boundary)
    ELSE previous.footnotes

\* FixPrevious with bottom_boundary one row too far
FixPrevious_Overlap(previous, table) ==
    [previous EXCEPT
        !.footnotes = PreviousFootnotes(previous, table),
        !.bottom_boundary = table.top_boundary,
        !.data_end_confidence = table.data_end_confidence]

\* bottom_boundary and data_end_confidence of the previous table
FixPrevious(previous, table) ==
    [previous EXCEPT
        !.footnotes = PreviousFootnotes(previous, table),
        !.bottom_boundary = table.top_boundary - 1,
        !.data_end_confidence = table.data_end_confidence]

\* WithFootnotes without the bottom_boundary assignment: the record keeps the
\* bottom_boundary discover_next_table counted in the remainder of the file
WithFootnotes_KeepBottom(table) ==
    [table EXCEPT
        !.footnotes = IF table.data_end < NumRows - 1
                      THEN RangeList(table.data_end + 1, NumRows)
                      ELSE <<>>]

\* footnotes and bottom_boundary of the table just discovered
WithFootnotes(table) ==
    LET footnotes == IF table.data_end < NumRows - 1
                     THEN RangeList(table.data_end + 1, NumRows)
                     ELSE <<>>
    IN [table EXCEPT
           !.footnotes = footnotes,
           !.bottom_boundary = IF Len(footnotes) > 0
                               THEN footnotes[Len(footnotes)]
                               ELSE table.data_end]

\* the variables of extract_tables
Extract ==
    [discovered_tables |-> discovered_tables, discovered_table |-> discovered_table,
     table_counter |-> table_counter, file_offset |-> file_offset,
     headers_discovered |-> headers_discovered, in_loop |-> in_loop]

\* the body of the while loop after discover_next_table has returned
LoopTail(e) ==
    IF e.discovered_table = None THEN e
    ELSE
    LET previous == e.discovered_tables[e.table_counter - 1]
        merging == MergeCondition(previous, e.discovered_table)
        table == IF merging THEN merge_tables(previous, e.discovered_table)
                 ELSE e.discovered_table
        counter == IF merging THEN e.table_counter - 1 ELSE e.table_counter
        \* after a merge the record is the one stored under counter
        stored == IF merging
                  THEN [e.discovered_tables EXCEPT ![counter] = table]
                  ELSE e.discovered_tables
        fixed == IF (counter - 1) \in DOMAIN stored
                 THEN [stored EXCEPT ![counter - 1] =
                          FixPrevious(stored[counter - 1], table)]
                 ELSE stored
        final == WithFootnotes(table)
    IN [e EXCEPT
           !.discovered_table = final,
           !.discovered_tables =
               IF merging THEN [fixed EXCEPT ![counter] = final] ELSE fixed,
           !.table_counter = counter,
           !.file_offset = IF merging THEN table.data_end + 1 ELSE e.file_offset]

\* LoopHead with headers_discovered assigned anew from the current header
LoopHead_Reset(e) ==
    [e EXCEPT
        !.discovered_tables =
            [k \in DOMAIN e.discovered_tables \cup {e.table_counter} |->
                IF k = e.table_counter THEN e.discovered_table
                ELSE e.discovered_tables[k]],
        !.headers_discovered =
            [h \in ToSet(e.discovered_table.header) |-> JoinRow(grid[h])],
        !.table_counter = e.table_counter + 1,
        !.file_offset = e.discovered_table.data_end + 1,
        !.in_loop = TRUE]

\* LoopHead that goes on at data_end
LoopHead_AtDataEnd(e) ==
    [e EXCEPT
        !.discovered_tables =
            [k \in DOMAIN e.discovered_tables \cup {e.table_counter} |->
                IF k = e.table_counter THEN e.discovered_table
                ELSE e.discovered_tables[k]],
        !.headers_discovered =
            [h \in DOMAIN e.headers_discovered \cup ToSet(e.discovered_table.header) |->
                IF h \in ToSet(e.discovered_table.header) THEN JoinRow(grid[h])
                ELSE e.headers_discovered[h]],
        !.table_counter = e.table_counter + 1,
        !.file_offset = e.discovered_table.data_end,
        !.in_loop = TRUE]

\* the statements of the while loop before the next discover_next_table
LoopHead(e) ==
    [e EXCEPT
        !.discovered_tables =
            [k \in DOMAIN e.discovered_tables \cup {e.table_counter} |->
                IF k = e.table_counter THEN e.discovered_table
                ELSE e.discovered_tables[k]],
        !.headers_discovered =
            [h \in DOMAIN e.headers_discovered \cup ToSet(e.discovered_table.header) |->
                IF h \in ToSet(e.discovered_table.header) THEN JoinRow(grid[h])
                ELSE e.headers_discovered[h]],
        !.table_counter = e.table_counter + 1,
        !.file_offset = e.discovered_table.data_end + 1,
        !.in_loop = TRUE]

\* FinalFootnotes starting one row early, at data_end
FinalFootnotes_FromDataEnd(table) ==
    SortedList(Range(table.data_end, NumRows) \ blank_lines)

\* FinalFootnotes keeping the blank rows
FinalFootnotes_WithBlanks(table) ==
    SortedList(Range(table.data_end + 1, NumRows))

\* footnotes of the last table: the rows after its data_end that are not blank
FinalFootnotes(table) ==
    SortedList(Range(table.data_end + 1, NumRows) \ blank_lines)

\* the statements after the while loop
Finalize(e) ==
    IF /\ (e.table_counter - 1) \in DOMAIN e.discovered_tables
       /\ e.discovered_tables[e.table_counter - 1].data_end # NumRows
    THEN [e EXCEPT !.discovered_tables[e.table_counter - 1].footnotes =
             FinalFootnotes(e.discovered_tables[e.table_counter - 1])]
    ELSE e

\* extract_tables from the return of discover_next_table (with table, or
\* None) to its next call, or to the return of extract_tables
Returned(table) ==
    LET e0 == [Extract EXCEPT !.discovered_table = table]
        e1 == IF in_loop THEN LoopTail(e0) ELSE e0
        e2 == IF e1.discovered_table # None THEN LoopHead(e1) ELSE Finalize(e1)
    IN /\ discovered_tables' = e2.discovered_tables
       /\ discovered_table' = e2.discovered_table
       /\ table_counter' = e2.table_counter
       /\ file_offset' = e2.file_offset
       /\ headers_discovered' = e2.headers_discovered
       /\ in_loop' = e2.in_loop
       /\ pc' = IF e1.discovered_table # None THEN "discover" ELSE "done"
       /\ found' = table
       /\ call' = NoCall
       /\ walk' = NoWalk

\* discover_next_table returns None without a walk
NoneFound == Returned(None)

(* ------------------------------- Patterns ------------------------------ *)
\* len(train_sig) > 0: the cell has characters, hence a train of classes
NonEmptyTrain(c) == c # NaN

\* Patterns.__init__: no column has a summary yet
NoPatterns == [data |-> <<>>, not_data |-> <<>>]

\* signatures.reverse_slice(top, bottom): the rows bottom, bottom - 1, .. top
reverse_slice(top, bottom) == Range(top, bottom + 1)

\* the summary of the window including the cell: summary_strength counts the
\* non-empty trains of column_trains
data_initialize(column_index, column_trains) ==
    [summary_strength |->
        Cardinality({r \in column_trains : NonEmptyTrain(grid[r][column_index])})]

\* pat_util.summary_strength_increment(summary_strength, train_sig)
summary_strength_increment(summary_strength, train_sig) ==
    IF NonEmptyTrain(train_sig) THEN summary_strength + 1 ELSE summary_strength

\* the summary of a column extended by the cell of the current row
data_increment(summary, column_index, line_label) ==
    [summary EXCEPT !.summary_strength =
        summary_strength_increment(@, grid[line_label][column_index])]

\* the summary of the window without the cell: column_trains is
\* signatures_slice.train_normalized_numbers[1:, column_index]
not_data_initialize(column_index, column_trains) ==
    [disagreement_summary_strength |->
        Cardinality({r \in column_trains : NonEmptyTrain(grid[r][column_index])})]

\* last_train is the cell of the row above the current one; the statement
\* `self.not_data[column_index]["disagreement_summary_strength"] + 1`
\* computes the sum and stores nothing
not_data_increment(summary, column_index, line_label) ==
    LET last_train == grid[line_label - 1][column_index]
        unused == IF NonEmptyTrain(last_train)
                  THEN summary.disagreement_summary_strength + 1
                  ELSE summary.disagreement_summary_strength
    IN summary

\* the part of collect_line_rules that maintains patterns, for every column
collect_line_rules(patterns, predicted_fdl, line_label) ==
    LET signatures_slice == reverse_slice(predicted_fdl, line_label) IN
    [data |->
        [column_index \in 1..3 |->
            IF column_index \notin DOMAIN patterns.data
            THEN data_initialize(column_index, signatures_slice)
            ELSE data_increment(patterns.data[column_index], column_index, line_label)],
     not_data |->
        [column_index \in 1..3 |->
            IF column_index \notin DOMAIN patterns.not_data
            THEN not_data_initialize(column_index, signatures_slice \ {line_label})
            ELSE not_data_increment(patterns.not_data[column_index],
                                    column_index, line_label)]]

(* ------------------------------- scoring ------------------------------ *)
\* n / d rounded to the nearest integer: the result of an operation on
\* scores is rounded to the precision of a score
Round(n, d) == (2 * n + d) \div (2 * d)
\* a * b on scores
Times(a, b) == Round(a * b, Scale)
\* a ** c on scores
Power(a, c) == IF c = 0 THEN Scale ELSE Round(a ^ c, Scale ^ (c - 1))

\* unit_class_fuzzy_rules[event] fails: the catalogue has no such rule
KeyErrorIn(events, unit_class_fuzzy_rules) ==
    \E i \in 1..Len(events) : events[i] \notin DOMAIN unit_class_fuzzy_rules

\* event_score with the weights above weight_lower_bound only
RECURSIVE event_score_Above(_, _, _)
event_score_Above(events, unit_class_fuzzy_rules, weight_lower_bound) ==
    IF events = <<>> THEN <<>>
    ELSE LET weight == unit_class_fuzzy_rules[Head(events)]
             rest == event_score_Above(Tail(events), unit_class_fuzzy_rules,
                                       weight_lower_bound)
         IN IF weight # NoWeight /\ weight[1] > weight_lower_bound
            THEN <<weight[1]>> \o rest
            ELSE rest

\* event_score with a rule without weight counted as a weight of 1
RECURSIVE event_score_NullCounts(_, _, _)
event_score_NullCounts(events, unit_class_fuzzy_rules, weight_lower_bound) ==
    IF events = <<>> THEN <<>>
    ELSE LET weight == unit_class_fuzzy_rules[Head(events)]
             rest == event_score_NullCounts(Tail(events), unit_class_fuzzy_rules,
                                            weight_lower_bound)
         IN IF weight = NoWeight THEN <<Scale>> \o rest
            ELSE IF weight[1] >= weight_lower_bound THEN <<weight[1]>> \o rest
            ELSE rest

\* the list event_score of max_score: the weights of the events whose
\* weight is not None and is at least weight_lower_bound, in the order of events
RECURSIVE event_score(_, _, _)
event_score(events, unit_class_fuzzy_rules, weight_lower_bound) ==
    IF events = <<>> THEN <<>>
    ELSE LET weight == unit_class_fuzzy_rules[Head(events)]
             rest == event_score(Tail(events), unit_class_fuzzy_rules,
                                 weight_lower_bound)
         IN IF weight # NoWeight /\ weight[1] >= weight_lower_bound
            THEN <<weight[1]>> \o rest
            ELSE rest

\* list.sort(key=lambda x: x[1], reverse=True), by insertion
RECURSIVE SortDescending(_)
SortDescending(scores) ==
    IF scores = <<>> THEN <<>>
    ELSE LET sorted == SortDescending(Tail(scores))
             before == SelectSeq(sorted, LAMBDA w : w > Head(scores))
             after == SelectSeq(sorted, LAMBDA w : w <= Head(scores))
         IN before \o <<Head(scores)>> \o after

\* the first weight of the sorted event_score; 0 without events or without
\* an event in event_score
max_score(events, unit_class_fuzzy_rules, weight_lower_bound) ==
    IF Len(events) > 0
    THEN LET sorted == SortDescending(event_score(events, unit_class_fuzzy_rules,
                                                  weight_lower_bound))
         IN IF Len(sorted) > 0 THEN sorted[1] ELSE 0
    ELSE 0

\* the keys of score_counts, in the order of their first occurrence
ScoreKeys(line_scores) ==
    SelectSeq([i \in 1..Len(line_scores) |->
                  IF \E j \in 1..(i - 1) : line_scores[j] = line_scores[i]
                  THEN <<>> ELSE <<line_scores[i]>>],
              LAMBDA k : k # <<>>)

\* line_scores.count(x)
Count(line_scores, x) == Cardinality({i \in 1..Len(line_scores) : line_scores[i] = x})

\* np.prod(prod_list): the factors are multiplied from left to right
RECURSIVE Prod(_)
Prod(prod_list) ==
    IF Len(prod_list) = 1 THEN prod_list[1]
    ELSE Times(Prod(SubSeq(prod_list, 1, Len(prod_list) - 1)),
               prod_list[Len(prod_list)])

\* probabilistic_sum with every distinct score counted once
probabilistic_sum_Once(line_scores) ==
    IF Len(line_scores) > 0
    THEN LET keys == ScoreKeys(line_scores)
             prod_list == [k \in 1..Len(keys) |-> Scale - keys[k][1]]
         IN Scale - Prod(prod_list)
    ELSE 0

\* 1 - prod((1 - score) ** count) over the distinct scores of line_scores
probabilistic_sum(line_scores) ==
    IF Len(line_scores) > 0
    THEN LET keys == ScoreKeys(line_scores)
             prod_list == [k \in 1..Len(keys) |->
                              Power(Scale - keys[k][1],
                                    Count(line_scores, keys[k][1]))]
         IN Scale - Prod(prod_list)
    ELSE 0

\* POPULATION_WEIGHT = 1 - (1 - parameters.p) ** (2 * summary_strength)
PopulationWeight(par, summary_strength) ==
    Scale - Power(Scale - par.p, 2 * summary_strength)

\* data_line_confidences[r] > not_data_line_confidences[r], for a row of the call
WasData(dlc, ndlc, r) == r \in 1..Len(dlc) /\ dlc[r] > ndlc[r]

\* ScoredCell with an imputation that does not ask whether the row above
\* was data
ScoredCell_Always(drf, dlc, ndlc, row_index, column_index, par) ==
    LET own == drf[row_index].cells[column_index]
        imputed ==
            IF /\ (own.null_equivalent \/ own.summary_strength = 1)
               /\ par.impute_nulls
               /\ (row_index - 1) \in DOMAIN drf
            THEN drf[row_index - 1].cells[column_index]
            ELSE own
    IN IF /\ own.summary_strength = 0
          /\ own.aggregate
          /\ (row_index - 2) \in DOMAIN drf
          /\ WasData(dlc, ndlc, row_index - 2)
       THEN drf[row_index - 2].cells[column_index]
       ELSE imputed

\* the cell whose agreements and summary_strength are scored: the cell
\* itself, the cell above it (impute_nulls) or the cell two rows above (aggregate)
ScoredCell(drf, dlc, ndlc, row_index, column_index, par) ==
    LET own == drf[row_index].cells[column_index]
        imputed ==
            IF /\ (own.null_equivalent \/ own.summary_strength = 1)
               /\ par.impute_nulls
               /\ (row_index - 1) \in DOMAIN drf
               /\ WasData(dlc, ndlc, row_index - 1)
            THEN drf[row_index - 1].cells[column_index]
            ELSE own
    IN IF /\ own.summary_strength = 0
          /\ own.aggregate
          /\ (row_index - 2) \in DOMAIN drf
          /\ WasData(dlc, ndlc, row_index - 2)
       THEN drf[row_index - 2].cells[column_index]
       ELSE imputed

\* the score a cell adds to the evidence of its row
CellScore(events, unit_class_fuzzy_rules, weight_lower_bound, strength, par) ==
    LET score == max_score(events, unit_class_fuzzy_rules, weight_lower_bound)
    IN IF par.summary_population_factor
       THEN Times(score, PopulationWeight(par, strength))
       ELSE score

\* event[:-1] + str(int(steps) + 1) for the steps 2..5
NextSequenceRule(event) ==
    IF event = "ADJACENT_ARITHMETIC_SEQUENCE_2" THEN "ADJACENT_ARITHMETIC_SEQUENCE_3"
    ELSE IF event = "ADJACENT_ARITHMETIC_SEQUENCE_3" THEN "ADJACENT_ARITHMETIC_SEQUENCE_4"
    ELSE IF event = "ADJACENT_ARITHMETIC_SEQUENCE_4" THEN "ADJACENT_ARITHMETIC_SEQUENCE_5"
    ELSE IF event = "ADJACENT_ARITHMETIC_SEQUENCE_5" THEN "ADJACENT_ARITHMETIC_SEQUENCE_6"
    ELSE event

\* event.startswith("ADJACENT_ARITHMETIC_SEQUENCE")
IsSequenceRule(event) == NextSequenceRule(event) # event

\* NotDataLineEvidence with UP_TO_FIRST_COLUMN_COMPLETE_CONSISTENTLY scored
\* on every row
RECURSIVE NotDataLineEvidence_Always(_, _, _, _)
NotDataLineEvidence_Always(events, rules, lower_bound, before_data) ==
    IF events = <<>> THEN <<>>
    ELSE LET first == Head(events)
             rest == NotDataLineEvidence_Always(Tail(events), rules, lower_bound,
                                                before_data)
             event == IF IsSequenceRule(first) /\ rules[first] = NoWeight
                      THEN NextSequenceRule(first) ELSE first
         IN IF /\ event \in DOMAIN rules
               /\ rules[event] # NoWeight
               /\ rules[event][1] > lower_bound
            THEN <<rules[event][1]>> \o rest
            ELSE rest

\* the weights the not-data line events add, in the order of the events
RECURSIVE NotDataLineEvidence(_, _, _, _)
NotDataLineEvidence(events, rules, lower_bound, before_data) ==
    IF events = <<>> THEN <<>>
    ELSE LET first == Head(events)
             rest == NotDataLineEvidence(Tail(events), rules, lower_bound, before_data)
             event == IF IsSequenceRule(first) /\ rules[first] = NoWeight
                      THEN NextSequenceRule(first) ELSE first
         IN IF first = "UP_TO_FIRST_COLUMN_COMPLETE_CONSISTENTLY" /\ ~before_data
            THEN rest
            ELSE IF /\ event \in DOMAIN rules
                    /\ rules[event] # NoWeight
                    /\ rules[event][1] > lower_bound
            THEN <<rules[event][1]>> \o rest
            ELSE rest

\* the weights the data line events add, in the order of the events
RECURSIVE DataLineEvidence(_, _, _)
DataLineEvidence(events, rules, lower_bound) ==
    IF events = <<>> THEN <<>>
    ELSE LET rule == Head(events)
             rest == DataLineEvidence(Tail(events), rules, lower_bound)
         IN IF rules[rule] # NoWeight /\ rules[rule][1] > lower_bound
            THEN <<rules[rule][1]>> \o rest
            ELSE rest

\* an event of the row is looked up in a catalogue that does not hold it
RowKeyError(drf, ndrf, dlc, ndlc, row_index, fr, par) ==
    \/ \E c \in DOMAIN drf[row_index].cells :
          \/ KeyErrorIn(ScoredCell(drf, dlc, ndlc, row_index, c, par).agreements,
                        fr.cell.data)
          \/ KeyErrorIn(ndrf[row_index].cells[c].disagreements, fr.cell.not_data)
    \/ /\ par.weight_input = "values_and_lines"
       /\ \/ KeyErrorIn(drf[row_index].line, fr.line.data)
          \/ KeyErrorIn(SelectSeq(ndrf[row_index].line, IsSequenceRule),
                        fr.line.not_data)

\* line_is_data_evidence and line_not_data_evidence of one row
RowEvidence(drf, ndrf, dlc, ndlc, row_index, fr, par) ==
    LET columns == DOMAIN drf[row_index].cells
        candidate_row_agreements ==
            [c \in columns |->
                LET cell == ScoredCell(drf, dlc, ndlc, row_index, c, par)
                IN CellScore(cell.agreements, fr.cell.data, par.weight_lower_bound,
                             cell.summary_strength, par)]
        candidate_row_disagreements ==
            [c \in columns |->
                LET cell == ndrf[row_index].cells[c]
                IN CellScore(cell.disagreements, fr.cell.not_data,
                             par.not_data_weight_lower_bound,
                             cell.disagreement_summary_strength, par)]
        before_data == ~\E r \in 1..(row_index - 1) : WasData(dlc, ndlc, r)
        lines == par.weight_input = "values_and_lines"
    IN [is_data |->
            candidate_row_agreements \o
            (IF lines
             THEN DataLineEvidence(drf[row_index].line, fr.line.data,
                                   par.weight_lower_bound)
             ELSE <<>>),
        not_data |->
            candidate_row_disagreements \o
            (IF lines /\ Cardinality(columns) > 1
             THEN NotDataLineEvidence(ndrf[row_index].line, fr.line.not_data,
                                      par.not_data_weight_lower_bound, before_data)
             ELSE <<>>)]

\* the loop over the rows, up to row n: the confidences of the rows 1..n,
\* or raised = "KeyError" when a catalogue lookup failed
RECURSIVE ClassConfidences(_, _, _, _, _)
ClassConfidences(n, drf, ndrf, fr, par) ==
    IF n = 0
    THEN [raised |-> "none", data_line_confidences |-> <<>>,
          not_data_line_confidences |-> <<>>]
    ELSE LET above == ClassConfidences(n - 1, drf, ndrf, fr, par)
             dlc == above.data_line_confidences
             ndlc == above.not_data_line_confidences
         IN IF above.raised # "none" THEN above
            ELSE IF RowKeyError(drf, ndrf, dlc, ndlc, n, fr, par)
            THEN [above EXCEPT !.raised = "KeyError"]
            ELSE LET evidence == RowEvidence(drf, ndrf, dlc, ndlc, n, fr, par)
                 IN [above EXCEPT
                        !.data_line_confidences =
                            Append(@, probabilistic_sum(evidence.is_data)),
                        !.not_data_line_confidences =
                            Append(@, probabilistic_sum(evidence.not_data))]

get_class_confidences(drf, ndrf, fr, par) ==
    ClassConfidences(Len(drf), drf, ndrf, fr, par)

(* ------------------------ discover_next_table (start) ------------------ *)
\* the rules fired for the rows of csv_file = csv_file.loc[file_offset:]
\* (row r of the grid is entry r + 1 of the rules)
RulesFrom(rules_fired, offset) ==
    SubSeq(rules_fired, offset + 1, Len(rules_fired))

\* the outcome of get_class_confidences(csv_file, ...) in discover_next_table
LineConfidences ==
    get_class_confidences(RulesFrom(data_rules_fired, file_offset),
                          RulesFrom(not_data_rules_fired, file_offset),
                          fuzzy_rules, parameters)

\* the first statements of discover_next_table, up to the call of
\* predict_last_data_line_top_down; NoneFound when it returns None at once
DiscoverStart ==
    /\ pc = "discover"
    /\ LET csv_file == {r \in Rows : r >= file_offset} IN
       \/ /\ csv_file = {}
          /\ NoneFound
       \/ /\ csv_file # {}
          /\ LineConfidences.raised = "none"
          /\ \E pat_first_data_line \in predict_fdl(file_offset) :
             IF pat_first_data_line < 0
             THEN NoneFound
             ELSE \E hp \in predict_header_indexes(file_offset, pat_first_data_line) :
                  LET data_section_start ==
                          IF hp.candidates # {}
                          THEN Min({Min(hp.candidates), pat_first_data_line})
                          ELSE pat_first_data_line
                      cand_data == {r \in csv_file : r >= data_section_start}
                  IN \E scored_data \in
                        SUBSET CandidateSubheaders(cand_data, hp.candidates, TRUE) :
                     LET ps == predict_subheaders_new(
                                   cand_data, hp.candidates, hp.header, scored_data)
                     IN /\ headers_discovered' =
                              [h \in DOMAIN headers_discovered \cup hp.header |->
                                  IF h \in hp.header THEN JoinRow(grid[h])
                                  ELSE headers_discovered[h]]
                        /\ call' = [active |-> TRUE,
                                    pat_first_data_line |-> pat_first_data_line,
                                    header |-> hp.header,
                                    data_section_start |-> data_section_start]
                        /\ walk' = [active |-> TRUE,
                                    line_label |-> pat_first_data_line,
                                    line_counter |-> 0,
                                    predicted_ldl |-> pat_first_data_line,
                                    probation |-> {},
                                    data_index |-> {},
                                    certain_data_widths |-> {},
                                    data_predictions |-> <<>>,
                                    predicted_pat_sub_headers |-> DOMAIN ps.subheader_scope,
                                    aggregation_rows |-> DOMAIN ps.aggregation_rows,
                                    patterns |-> NoPatterns]
                        /\ pc' = "walk"
                        /\ UNCHANGED <<in_loop, file_offset, table_counter,
                                       discovered_tables, discovered_table, found>>
    /\ UNCHANGED <<grid, scoreVars, callVars, weightVars>>

(* ------------------ predict_last_data_line_top_down -------------------- *)
\* line_counter <= 3: the first lines rely on the first-data-line search
ForcedLines == 3

\* non_empty_values(df_row): df_row.loc[:last_valid_index].shape[0]
non_empty_values(row) ==
    IF AllNull(row) THEN Len(row)
    ELSE Max({c \in 1..Len(row) : row[c] # NaN})

\* ForceAccepted without the first lines
ForceAccepted_Aggregations(w, line_label) ==
    line_label \in w.aggregation_rows

\* ForceAccepted without the aggregation rows
ForceAccepted_FirstLines(w, line_label) ==
    w.line_counter <= ForcedLines

\* the first lines and the aggregation rows are taken as data without scoring
ForceAccepted(w, line_label) ==
    w.line_counter <= ForcedLines \/ line_label \in w.aggregation_rows

\* the footnote test made on a predicted subheader
SubheaderFootnote(first_value) ==
    \/ StartsWithFootnoteKeyword(first_value)
    \/ StartsWithEnumerator(first_value)
    \/ StartsWithParenDigit(first_value)

\* the row has a first value and nothing beyond its first or second column
NarrowRow(row) ==
    /\ Len(row) > 0
    /\ ~IsNullCell(row[1])
    /\ \/ Len(row) > 1 /\ \A c \in 2..Len(row) : IsNullCell(row[c])
       \/ Len(row) > 2 /\ \A c \in 3..Len(row) : IsNullCell(row[c])

\* NarrowFootnote without the footnote keywords
NarrowFootnote_NoKeyword(row) ==
    \/ ContainsEquals(row[1])
    \/ StartsWithEnumerator(row[1])
    \/ StartsWithParenOne(row[1])
    \/ /\ StartsWithParen(row[1])
       /\ Len(row) > 1
       /\ \A c \in 2..Len(row) : row[c] = NaN

\* the footnote tests made on a narrow row
NarrowFootnote(row) ==
    \/ StartsWithFootnoteKeyword(row[1])
    \/ ContainsEquals(row[1])
    \/ StartsWithEnumerator(row[1])
    \/ StartsWithParenOne(row[1])
    \/ /\ StartsWithParen(row[1])
       /\ Len(row) > 1
       /\ \A c \in 2..Len(row) : row[c] = NaN

\* in_headers_discovered with no header remembered
in_headers_discovered_none(row) ==
    JoinRow(row) \in {}

\* ",".join(line.apply(str).tolist()) in set(headers_discovered.values())
in_headers_discovered(row) ==
    JoinRow(row) \in {headers_discovered[h] : h \in DOMAIN headers_discovered}

\* data_predictions[line_label] = predict_line_label(data_conf, not_data_conf)
Predicted(w, line_label, data_conf, not_data_conf) ==
    [r \in DOMAIN w.data_predictions \cup {line_label} |->
        IF r = line_label THEN <<data_conf, not_data_conf>>
        ELSE w.data_predictions[r]]

\* AcceptLine that takes the last data line one row too low
AcceptLine_Below(w, line_label) ==
    [w EXCEPT !.predicted_ldl = line_label + 1,
              !.data_index = @ \cup {line_label},
              !.certain_data_widths = @ \cup {non_empty_values(grid[line_label])}]

\* predicted_ldl = line_label; data = [line] + data; certain_data_widths.append(...)
AcceptLine(w, line_label) ==
    [w EXCEPT !.predicted_ldl = line_label,
              !.data_index = @ \cup {line_label},
              !.certain_data_widths = @ \cup {non_empty_values(grid[line_label])}]

\* ScoredDecision that takes the row as data where it should end the walk
ScoredDecision_NeverStop(w, line_label, data_conf, not_data_conf, label) ==
    IF /\ (line_label - 1) \notin w.probation
       /\ (line_label - 1) \notin blank_lines
       /\ data_conf < not_data_conf
       /\ label # "DATA"
       /\ ~(/\ w.certain_data_widths # {}
            /\ non_empty_values(grid[line_label]) = Max(w.certain_data_widths)
            /\ (line_label - 1) \in w.data_index) THEN "probation"
    ELSE "data"

\* ScoredDecision without probation: a row that is not data ends the walk
ScoredDecision_Stop(w, line_label, data_conf, not_data_conf, label) ==
    IF data_conf > 0 /\ data_conf >= not_data_conf THEN "data"
    ELSE IF /\ w.certain_data_widths # {}
            /\ non_empty_values(grid[line_label]) = Max(w.certain_data_widths)
            /\ (line_label - 1) \in w.data_index THEN "data"
    ELSE IF (line_label - 1) \notin w.probation /\ label = "DATA" THEN "data"
    ELSE "stop"

\* ScoredDecision with a probation that does not look at the row above
ScoredDecision_Again(w, line_label, data_conf, not_data_conf, label) ==
    IF data_conf > 0 /\ data_conf >= not_data_conf THEN "data"
    ELSE IF /\ w.certain_data_widths # {}
            /\ non_empty_values(grid[line_label]) = Max(w.certain_data_widths)
            /\ (line_label - 1) \in w.data_index THEN "data"
    ELSE IF data_conf < not_data_conf /\ label # "DATA" THEN "probation"
    ELSE IF (line_label - 1) \notin w.probation /\ label = "DATA" THEN "data"
    ELSE "stop"

\* the decision on a scored row: "data", "probation" or "stop"
ScoredDecision(w, line_label, data_conf, not_data_conf, label) ==
    IF data_conf > 0 /\ data_conf >= not_data_conf THEN "data"
    ELSE IF /\ w.certain_data_widths # {}
            /\ non_empty_values(grid[line_label]) = Max(w.certain_data_widths)
            /\ (line_label - 1) \in w.data_index THEN "data"
    ELSE IF /\ (line_label - 1) \notin w.probation
            /\ (line_label - 1) \notin blank_lines
            /\ data_conf < not_data_conf
            /\ label # "DATA" THEN "probation"
    ELSE IF \/ data_conf > 0 /\ data_conf >= not_data_conf
            \/ (line_label - 1) \notin w.probation /\ label = "DATA" THEN "data"
    ELSE "stop"

\* IsBlankLine that finds no blank line
IsBlankLine_Never(line_label) == FALSE

\* line_label in blank_lines: the walk ends at the row
IsBlankLine(line_label) == line_label \in blank_lines

\* one iteration of the loop over candidate_data; the result carries
\* stop = TRUE when the iteration ends in break
WalkLine(w0, data_conf, not_data_conf, label) ==
    LET line_label == w0.line_label
        row == grid[line_label]
        w == [w0 EXCEPT !.line_counter = @ + 1]
        Continue(v) == [v EXCEPT !.line_label = line_label + 1] @@ [stop |-> FALSE]
        Break(v) == v @@ [stop |-> TRUE]
        is_subheader == line_label \in w.predicted_pat_sub_headers
        footnote1 == is_subheader /\ SubheaderFootnote(row[1])
        not_data_conf1 == IF is_subheader THEN MaxConf ELSE 0
    IN
    IF IsBlankLine(line_label) THEN Break(w)
    ELSE IF is_subheader /\ ~footnote1
    THEN Continue([w EXCEPT !.data_predictions = Predicted(w, line_label, 0, MaxConf)])
    ELSE IF NarrowRow(row) /\ (footnote1 \/ NarrowFootnote(row))
    THEN Break([w EXCEPT !.data_predictions = Predicted(w, line_label, 0, MaxConf)])
    ELSE IF ForceAccepted(w, line_label)
    THEN Continue([AcceptLine(w, line_label) EXCEPT
                      !.data_predictions =
                          Predicted(w, line_label, MaxConf, not_data_conf1)])
    ELSE IF AllNull(row)
    THEN Continue([w EXCEPT !.data_predictions =
                                Predicted(w, line_label, 0, not_data_conf1)])
    ELSE IF in_headers_discovered(row)
    THEN Break(w)
    ELSE LET decision == ScoredDecision(w, line_label, data_conf, not_data_conf, label)
             rules == [w EXCEPT !.patterns =
                                   collect_line_rules(@, call.pat_first_data_line,
                                                      line_label)]
             scored == [rules EXCEPT !.data_predictions =
                                    Predicted(w, line_label, data_conf, not_data_conf)]
         IN IF decision = "probation"
            THEN Continue([scored EXCEPT !.probation = @ \cup {line_label}])
            ELSE IF decision = "data"
            THEN Continue(AcceptLine(scored, line_label))
            ELSE Break(rules)

\* the row reaches the scoring step: collect_line_rules, max_score, probabilistic_sum
IsScored(w) ==
    LET line_label == w.line_label
        row == grid[line_label]
        is_subheader == line_label \in w.predicted_pat_sub_headers
    IN /\ line_label \notin blank_lines
       /\ ~is_subheader
       /\ ~(NarrowRow(row) /\ NarrowFootnote(row))
       /\ ~ForceAccepted([w EXCEPT !.line_counter = @ + 1], line_label)
       /\ ~AllNull(row)
       /\ ~in_headers_discovered(row)

\* the locals of the walk after an iteration; of data_predictions only the
\* entry of predicted_ldl is read (last_data_line_confidence): the other
\* entries are dropped
KeptLocals(w) ==
    [f \in DOMAIN walk |->
        IF f = "data_predictions"
        THEN [r \in DOMAIN w.data_predictions \cap {w.predicted_ldl}
                 |-> w.data_predictions[r]]
        ELSE w[f]]

WalkStep ==
    /\ pc = "walk"
    /\ \E data_conf \in 0..MaxConf, not_data_conf \in 0..MaxConf,
          label \in {"DATA", "NOT_DATA"} :
          /\ IsScored(walk) \/ (data_conf = 0 /\ not_data_conf = 0 /\ label = "DATA")
          /\ LET w == WalkLine(walk, data_conf, not_data_conf, label) IN
             /\ walk' = KeptLocals(w)
             /\ pc' = IF w.stop \/ w.line_label >= NumRows THEN "walked" ELSE "walk"
    /\ UNCHANGED <<grid, in_loop, file_offset, table_counter, discovered_tables,
                   discovered_table, found, headers_discovered, call>>
    /\ UNCHANGED <<scoreVars, callVars, weightVars>>

\* last_data_line_confidence(data_predictions, predicted_ldl)["confidence"]
\* (table_classifier_utilities): the prediction of the last accepted row
last_data_line_confidence(data_predictions, predicted_ldl) ==
    data_predictions[predicted_ldl]

\* name_table_columns over the columns that are not all null in header + data
TableColumns(header, first, last) ==
    {c - 1 : c \in {k \in 1..3 :
        \E r \in header \cup Range(first, last + 1) : grid[r][k] # NaN}}

\* the record built by discover_next_table once the last data line is known;
\* fdl_confidence stands for the confidences predict_fdl returned in this call
\* (one value per call, named by the call's file_offset and first data line)
BuildTable(scored_data) ==
    LET pat_last_data_line == walk.predicted_ldl
        predicted_pat_data_lines ==
            Range(call.data_section_start, pat_last_data_line + 1)
        cand_data == predicted_pat_data_lines
        candidate_pat_sub_headers ==
            walk.predicted_pat_sub_headers \cap predicted_pat_data_lines
        ps == predict_subheaders(cand_data, candidate_pat_sub_headers,
                                 call.header, scored_data)
    IN [top_boundary |-> file_offset,
        bottom_boundary |-> Cardinality({r \in Rows : r >= file_offset}) - 1,
        data_start |-> call.data_section_start,
        data_end_confidence |->
            last_data_line_confidence(walk.data_predictions, walk.predicted_ldl),
        columns |-> TableColumns(call.header, call.pat_first_data_line,
                                 pat_last_data_line),
        fdl_confidence |-> <<file_offset, call.pat_first_data_line>>,
        header |-> SortedList(call.header),
        data_end |-> pat_last_data_line,
        footnotes |-> <<>>,
        subheader_scope |-> ps.subheader_scope,
        aggregation_scope |-> ps.aggregation_rows]

\* the statements of discover_next_table after the walk, and extract_tables
\* up to its next call of discover_next_table
DiscoverFinish ==
    /\ pc = "walked"
    /\ LET cand_data == Range(call.data_section_start, walk.predicted_ldl + 1)
           candidates == walk.predicted_pat_sub_headers \cap cand_data
       IN \E scored_data \in SUBSET CandidateSubheaders(cand_data, candidates, FALSE) :
             Returned(BuildTable(scored_data))
    /\ UNCHANGED <<grid, scoreVars, callVars, weightVars>>

(* ------------------------------- next state --------------------------- *)
Next ==
    \/ DiscoverStart
    \/ WalkStep
    \/ DiscoverFinish

Spec == Init /\ [][Next]_vars

TypeOK == pc \in {"discover", "walk", "walked", "done"}

\* the return of discover_next_table to extract_tables
Leave == pc = "walked" /\ pc' \in {"discover", "done"}

\* extract_tables runs in one thread: a step of discover_next_table that can
\* be taken is taken, and the walk that has ended returns to extract_tables
SpecFair ==
    /\ Spec
    /\ WF_vars(DiscoverStart) /\ WF_vars(WalkStep) /\ WF_pc(Leave)

(* ------------------------ the scoring of the rows ---------------------- *)
\* a call of get_class_confidences: the catalogue is one of Catalogues, the
\* rows are handed to the loop one by one
InitScore ==
    /\ CallIdle
    /\ grid = <<>>
    /\ pc = "score"
    /\ in_loop = FALSE
    /\ file_offset = 0
    /\ table_counter = 1
    /\ discovered_tables = <<>>
    /\ discovered_table = None
    /\ found = None
    /\ headers_discovered = <<>>
    /\ call = NoCall
    /\ walk = NoWalk
    /\ fuzzy_rules \in Catalogues
    /\ parameters \in {[DefaultParameters EXCEPT !.summary_population_factor = f] :
                          f \in BOOLEAN}
    /\ data_rules_fired = <<>>
    /\ not_data_rules_fired = <<>>
    /\ label_confidences = <<>>

\* the rows of a call: two columns each; the last row of a call of
\* MaxScoreRows rows is an aggregation row without data line events
ScoredRows(row_index) ==
    {row \in [first : DataCells, last : LastDataCells, against : NotDataCells,
              line : LineEvents] :
        row_index = MaxScoreRows => (row.first.aggregate /\ row.line.data = <<>>)}

\* one iteration of the loop over file_dataframe_trimmed.index, with the
\* events the rule engine fired for the row
ScoreRow ==
    /\ pc = "score"
    /\ Len(data_rules_fired) < MaxScoreRows
    /\ \E row \in ScoredRows(Len(data_rules_fired) + 1) :
          LET drf == Append(data_rules_fired,
                            [cells |-> <<row.first, row.last>>,
                             line |-> row.line.data])
              ndrf == Append(not_data_rules_fired,
                             [cells |-> <<row.against, row.against>>,
                              line |-> row.line.not_data])
              dlc == [r \in 1..Len(label_confidences) |-> label_confidences[r][1]]
              ndlc == [r \in 1..Len(label_confidences) |-> label_confidences[r][2]]
              evidence == RowEvidence(drf, ndrf, dlc, ndlc, Len(drf),
                                      fuzzy_rules, parameters)
          IN /\ ~RowKeyError(drf, ndrf, dlc, ndlc, Len(drf), fuzzy_rules, parameters)
             /\ data_rules_fired' = drf
             /\ not_data_rules_fired' = ndrf
             /\ label_confidences' =
                    Append(label_confidences,
                           <<probabilistic_sum(evidence.is_data),
                             probabilistic_sum(evidence.not_data)>>)
    /\ UNCHANGED <<extractVars, fuzzy_rules, parameters, callVars, weightVars>>

NextScore == ScoreRow

SpecScore == InitScore /\ [][NextScore]_vars

(* ------------------- the scoring of a row of the walk ------------------ *)
\* line_is_data_evidence and line_not_data_evidence of a row the walk scores:
\* every cell is scored with its own agreements, and the event
\* UP_TO_FIRST_COLUMN_COMPLETE_CONSISTENTLY is passed over
WalkEvidence(fired, not_fired, fr, par) ==
    LET columns == DOMAIN fired.cells
        candidate_row_agreements ==
            [c \in columns |->
                CellScore(fired.cells[c].agreements, fr.cell.data,
                          par.weight_lower_bound, fired.cells[c].summary_strength, par)]
        candidate_row_disagreements ==
            [c \in columns |->
                CellScore(not_fired.cells[c].disagreements, fr.cell.not_data,
                          par.not_data_weight_lower_bound,
                          not_fired.cells[c].disagreement_summary_strength, par)]
        lines == par.weight_input = "values_and_lines"
    IN [is_data |->
            candidate_row_agreements \o
            (IF lines
             THEN DataLineEvidence(fired.line, fr.line.data, par.weight_lower_bound)
             ELSE <<>>),
        not_data |->
            candidate_row_disagreements \o
            (IF lines /\ Cardinality(columns) > 1
             THEN NotDataLineEvidence(not_fired.line, fr.line.not_data,
                                      par.not_data_weight_lower_bound, FALSE)
             ELSE <<>>)]

\* the walk scores one row with the events collect_line_rules fired for it
WalkScoreRow ==
    /\ pc = "score"
    /\ data_rules_fired = <<>>
    /\ \E row \in ScoredRows(1) :
          LET fired == [cells |-> <<row.first, row.last>>, line |-> row.line.data]
              not_fired == [cells |-> <<row.against, row.against>>,
                            line |-> row.line.not_data]
              evidence == WalkEvidence(fired, not_fired, fuzzy_rules, parameters)
          IN /\ ~RowKeyError(<<fired>>, <<not_fired>>, <<>>, <<>>, 1, fuzzy_rules,
                             parameters)
             /\ walk' = [active |-> TRUE,
                         data_rules_fired |-> fired,
                         not_data_rules_fired |-> not_fired,
                         data_conf |-> probabilistic_sum(evidence.is_data),
                         not_data_conf |-> probabilistic_sum(evidence.not_data)]
    /\ pc' = "walkscore"
    /\ UNCHANGED <<grid, in_loop, file_offset, table_counter, discovered_tables,
                   discovered_table, found, headers_discovered, call, scoreVars,
                   callVars, weightVars>>

\* the two places that turn fired rules into confidences
NextEvidence ==
    \/ ScoreRow
    \/ WalkScoreRow

SpecEvidence == InitScore /\ [][NextEvidence]_vars

(* -------------- infer_annotations, infer_annotations_from_df ----------- *)
\* the two methods that scan one file; both run the same try block
EntryPoints == {"infer_annotations", "infer_annotations_from_df"}

\* a catalogue that has no entry for the rule id CONSISTENT_NUMERIC
LackingRules ==
    [TrainedRules EXCEPT !.cell.data =
        [VALUE_REPEATS_ONCE_BELOW |-> Weight(50), CONSISTENT_D_STAR |-> NoWeight]]
CallCatalogues == {TrainedRules, LackingRules}

\* the grids handed to a call: no row at all, or up to MaxRows rows
CallGrids == ShortGrids

\* what collect_dataframe_rules recorded for a row of three cells: every cell
\* agrees with CONSISTENT_NUMERIC, or no rule fired on the row
FiredRows ==
    {[cells |-> [c \in 1..3 |-> cell], line |-> <<>>] :
        cell \in {k \in DataCells : k.summary_strength = 1 \/ k.null_equivalent}}
QuietRow ==
    [cells |-> [c \in 1..3 |->
                   [disagreements |-> <<>>, disagreement_summary_strength |-> 0]],
     line |-> <<>>]

InitCall ==
    /\ CallIdle
    /\ grid \in CallGrids
    /\ pc = "enter"
    /\ in_loop = FALSE
    /\ file_offset = 0
    /\ table_counter = 1
    /\ discovered_tables = <<>>
    /\ discovered_table = None
    /\ found = None
    /\ headers_discovered = <<>>
    /\ call = NoCall
    /\ walk = NoWalk
    /\ fuzzy_rules \in CallCatalogues
    /\ parameters = DefaultParameters
    /\ data_rules_fired = <<>>
    /\ not_data_rules_fired = <<>>
    /\ label_confidences = <<>>

\* the try block up to the first call of discover_next_table: the shape of
\* the grid, blank_lines, and in extract_tables the rules fired per row
Enter ==
    /\ pc = "enter"
    /\ data_rules_fired' \in [1..NumRows -> FiredRows]
    /\ not_data_rules_fired' = [r \in 1..NumRows |-> QuietRow]
    /\ pc' = "discover"
    /\ UNCHANGED <<grid, in_loop, file_offset, table_counter, discovered_tables,
                   discovered_table, found, headers_discovered, call, walk,
                   fuzzy_rules, parameters, label_confidences, callVars, weightVars>>

\* the positions inside the try block
Scanning == {"enter", "discover", "walk", "walked", "done"}

\* get_class_confidences looks up a rule id the catalogue lacks: KeyError
ConfidencesRaise ==
    /\ pc = "discover"
    /\ {r \in Rows : r >= file_offset} # {}
    /\ LineConfidences.raised # "none"
    /\ raised' = LineConfidences.raised
    /\ pc' = "except"
    /\ UNCHANGED <<extractVars_but_pc, scoreVars, annotations, result, weightVars>>

\* a statement of the try block raises an exception
Raise ==
    /\ pc \in Scanning
    /\ raised' = "Exception"
    /\ pc' = "except"
    /\ UNCHANGED <<extractVars_but_pc, scoreVars, annotations, result, weightVars>>

\* convert_predictions: the annotation record of the call
convert_predictions(predictions, blank, last_line_processed) ==
    LET keys == SortedList(DOMAIN predictions)
    IN [blanklines |-> SortedList(blank),
        lines_processed |-> last_line_processed,
        tables |->
            [i \in 1..Len(keys) |->
                LET table == predictions[keys[i]]
                IN [table_counter |-> keys[i],
                    top_boundary |-> table.top_boundary,
                    bottom_boundary |-> table.bottom_boundary,
                    data_start |-> table.data_start,
                    data_end |-> table.data_end,
                    header |-> table.header,
                    footnotes |-> table.footnotes,
                    subheaders |-> SortedList(DOMAIN table.subheader_scope),
                    confidence |-> [body_start |-> table.fdl_confidence,
                                    body_end |-> table.data_end_confidence],
                    columns |-> table.columns]]]

\* annotations = convert_predictions(...), the last statement of the try block
Convert ==
    /\ pc = "done"
    /\ annotations' = convert_predictions(discovered_tables, blank_lines, NumRows)
    /\ pc' = "converted"
    /\ UNCHANGED <<extractVars_but_pc, scoreVars, raised, result, weightVars>>

\* except Exception as e: print(f"filepath={filepath} failed to process ...");
\* infer_annotations_from_df has no name filepath, so its handler raises
\* NameError in turn
Except ==
    /\ pc = "except"
    /\ \E entry \in EntryPoints :
          raised' = IF entry = "infer_annotations_from_df" THEN "NameError" ELSE raised
    /\ pc' = "finally"
    /\ UNCHANGED <<extractVars_but_pc, scoreVars, annotations, result, weightVars>>

\* a finally clause without a return: a pending exception goes to the caller
finally_pass(value, exception) ==
    [returned |-> exception = "none", value |-> value, propagated |-> exception]

\* finally: return annotations -- the return drops a pending exception
finally_return(value, exception) ==
    [returned |-> TRUE, value |-> value, propagated |-> "none"]

Finally ==
    /\ pc \in {"converted", "finally"}
    /\ result' = finally_return(annotations, raised)
    /\ pc' = "returned"
    /\ UNCHANGED <<extractVars_but_pc, scoreVars, annotations, raised, weightVars>>

NextCall ==
    \/ Enter
    \/ DiscoverStart
    \/ ConfidencesRaise
    \/ WalkStep
    \/ DiscoverFinish
    \/ Raise
    \/ Convert
    \/ Except
    \/ Finally

SpecCall == InitCall /\ [][NextCall]_vars

(* ------------------------- the context windows ------------------------- *)
\* longest grid whose windows are collected
MaxWindowRows == 5
\* the values of max_summary_strength and max_line_depth of these grids
WindowStrengths == {1, 2}
WindowDepths == {2, 3}

\* grids of full rows and blank rows
WindowGrids == UNION {[0..(k - 1) -> {DataRow, BlankRow}] : k \in 1..MaxWindowRows}

\* the rows of the window of column_index that starts at row first: up to the
\* row where the count of non-empty trains reaches max_summary_strength,
\* looking at most max_line_depth rows down; the rest of the column when the
\* count is not reached (column_train_sigs == None)
ColumnWindow(first, column_index, par) ==
    LET depth == Min({NumRows - first, par.max_line_depth})
        NonEmptyUpTo(idx) ==
            Cardinality({r \in Range(first, first + idx + 1) :
                            NonEmptyTrain(grid[r][column_index])})
        reached == {idx \in 0..(depth - 1) :
                       /\ NonEmptyTrain(grid[first + idx][column_index])
                       /\ NonEmptyUpTo(idx) = par.max_summary_strength}
    IN IF reached # {}
       THEN Range(first, first + Min(reached) + 1)
       ELSE Range(first, NumRows)

\* collect_dataframe_rules, one row: the window of every column including
\* the cell of the row, and the window below the cell
WindowSummaries(line_index, par) ==
    [data |->
        [cells |-> [column_index \in 1..3 |->
                       data_initialize(column_index,
                                       ColumnWindow(line_index, column_index, par))]],
     not_data |->
        [cells |-> [column_index \in 1..3 |->
                       not_data_initialize(column_index,
                                           ColumnWindow(line_index + 1, column_index, par))]]]

InitWindow ==
    /\ CallIdle
    /\ grid \in WindowGrids
    /\ pc = "collect"
    /\ in_loop = FALSE
    /\ file_offset = 0
    /\ table_counter = 1
    /\ discovered_tables = <<>>
    /\ discovered_table = None
    /\ found = None
    /\ headers_discovered = <<>>
    /\ call = NoCall
    /\ walk = NoWalk
    /\ fuzzy_rules = TrainedRules
    /\ parameters \in {[DefaultParameters EXCEPT !.max_summary_strength = s,
                                                 !.max_line_depth = d] :
                          s \in WindowStrengths, d \in WindowDepths}
    /\ data_rules_fired = <<>>
    /\ not_data_rules_fired = <<>>
    /\ label_confidences = <<>>

\* one iteration of the loop over csv_file.itertuples(): row line_index of
\* the grid is entry line_index + 1 of the rules
CollectRow ==
    /\ pc = "collect"
    /\ Len(data_rules_fired) < NumRows
    /\ LET summaries == WindowSummaries(Len(data_rules_fired), parameters)
       IN /\ data_rules_fired' = Append(data_rules_fired, summaries.data)
          /\ not_data_rules_fired' = Append(not_data_rules_fired, summaries.not_data)
    /\ UNCHANGED <<extractVars, fuzzy_rules, parameters, label_confidences, callVars,
                   weightVars>>

\* the walk calls collect_line_rules for a row it scores: the first such row
\* is at least ForcedLines rows below the first data line, later ones follow;
\* a blank row is not scored
CollectLine ==
    /\ pc = "collect"
    /\ \/ /\ ~walk.active
          /\ \E predicted_fdl \in Rows :
             \E line_label \in {r \in Rows : r >= predicted_fdl + ForcedLines} :
                /\ ~AllNull(grid[line_label])
                /\ walk' = [active |-> TRUE,
                            predicted_fdl |-> predicted_fdl,
                            line_label |-> line_label,
                            patterns |-> collect_line_rules(NoPatterns, predicted_fdl,
                                                            line_label)]
       \/ /\ walk.active
          /\ \E line_label \in {r \in Rows : r > walk.line_label} :
                /\ ~AllNull(grid[line_label])
                /\ walk' = [walk EXCEPT
                               !.line_label = line_label,
                               !.patterns = collect_line_rules(@, walk.predicted_fdl,
                                                               line_label)]
    /\ UNCHANGED <<grid, pc, in_loop, file_offset, table_counter, discovered_tables,
                   discovered_table, found, headers_discovered, call, scoreVars,
                   callVars, weightVars>>

NextWindow ==
    \/ CollectRow
    \/ CollectLine

SpecWindow == InitWindow /\ [][NextWindow]_vars

(* ---------------- save_weights, load_weights and the training ---------- *)
\* the counts train_rules takes from the training data of one rule:
\* <<true positives, false positives>>
RuleCounts == {<<0, 0>>, <<2, 1>>, <<1, 2>>}
\* total_cell_instances, total_line_instances
TotalInstances == 4

\* a Python number k / Scale is <<k>>, None is <<>>
\* the entry train_rules stores for a rule: weight and confidence are None
\* when the rule never fired
RuleEntry(counts) ==
    LET true_positive == counts[1]
        false_positive == counts[2]
        predicted_positive == true_positive + false_positive
    IN [weight |->
            IF predicted_positive # 0
            THEN <<Round(Scale * true_positive, predicted_positive)
                    - Round(Scale * false_positive, predicted_positive)>>
            ELSE <<>>,
        confidence |->
            IF predicted_positive # 0
            THEN <<Round(Scale * true_positive, predicted_positive)>>
            ELSE <<>>,
        coverage |-> <<Round(Scale * predicted_positive, TotalInstances)>>]

\* train_rules: the four maps, here with one rule each
train_rules(counts) ==
    [cell |->
        [data |-> [CONSISTENT_NUMERIC |-> RuleEntry(counts[1])],
         not_data |-> [First_FW_Symbol_disagrees |-> RuleEntry(counts[2])]],
     line |->
        [data |-> [ONE_NULL_EQUIVALENT_ON_LINE |-> RuleEntry(counts[3])],
         not_data |-> [ADJACENT_ARITHMETIC_SEQUENCE_2 |-> RuleEntry(counts[4])]]]

StoredCatalogues == {train_rules(counts) : counts \in [1..4 -> RuleCounts]}

\* the parameters written next to the catalogue (the numeric ones)
StoredParameters(par) ==
    [weight_lower_bound |-> <<par.weight_lower_bound>>,
     not_data_weight_lower_bound |-> <<par.not_data_weight_lower_bound>>,
     p |-> <<par.p>>]

\* JSON text of a number: an optional sign and the decimal digits
DigitChars == <<"0", "1", "2", "3", "4", "5", "6", "7", "8", "9">>
RECURSIVE DigitsOf(_)
DigitsOf(n) ==
    IF n < 10 THEN <<DigitChars[n + 1]>>
    ELSE Append(DigitsOf(n \div 10), DigitChars[(n % 10) + 1])
NumberText(k) == IF k < 0 THEN <<"-">> \o DigitsOf(0 - k) ELSE DigitsOf(k)

RECURSIVE NaturalOf(_)
NaturalOf(text) ==
    IF text = <<>> THEN 0
    ELSE 10 * NaturalOf(SubSeq(text, 1, Len(text) - 1))
         + (CHOOSE d \in 0..9 : DigitChars[d + 1] = text[Len(text)])
NumberOf(text) ==
    IF text[1] = "-" THEN 0 - NaturalOf(Tail(text)) ELSE NaturalOf(text)

\* json.dump of a Python value: a dict of depth levels of string keys becomes
\* an object with the same members, a number its text, None the word null
RECURSIVE json_dump(_, _)
json_dump(value, depth) ==
    IF depth > 0
    THEN [kind |-> "object",
          members |-> [k \in DOMAIN value |-> json_dump(value[k], depth - 1)]]
    ELSE IF value = <<>>
    THEN [kind |-> "null"]
    ELSE [kind |-> "number", text |-> NumberText(value[1])]

\* json.load: the object becomes a dict, the text a number, null None
RECURSIVE json_load(_)
json_load(document) ==
    IF document.kind = "object"
    THEN [k \in DOMAIN document.members |-> json_load(document.members[k])]
    ELSE IF document.kind = "null"
    THEN <<>>
    ELSE <<NumberOf(document.text)>>

\* dict(fuzzy_rules=..., parameters=...) written by learn_and_save_weights
TrainOutput(catalogue, par) ==
    [kind |-> "object",
     members |-> [fuzzy_rules |-> json_dump(catalogue, 4),
                  parameters |-> json_dump(StoredParameters(par), 1)]]

InitWeights ==
    /\ CallIdle
    /\ grid = <<>>
    /\ pc = "weights"
    /\ in_loop = FALSE
    /\ file_offset = 0
    /\ table_counter = 1
    /\ discovered_tables = <<>>
    /\ discovered_table = None
    /\ found = None
    /\ headers_discovered = <<>>
    /\ call = NoCall
    /\ walk = NoWalk
    /\ fuzzy_rules \in StoredCatalogues
    /\ parameters = DefaultParameters
    /\ data_rules_fired = <<>>
    /\ not_data_rules_fired = <<>>
    /\ label_confidences = <<>>

\* PYTHEAS.save_weights: json.dump(self.fuzzy_rules, outfile)
save_weights ==
    /\ pc = "weights"
    /\ weights_file' = json_dump(fuzzy_rules, 4)
    /\ pc' = "saved"
    /\ UNCHANGED <<extractVars_but_pc, scoreVars, callVars, loaded>>

\* API.learn_and_save_weights: train_rules on the counts of the training
\* files, then json.dump(dict(fuzzy_rules=..., parameters=...), outfile)
learn_and_save_weights ==
    /\ pc = "weights"
    /\ \E counts \in [1..4 -> RuleCounts] :
          /\ fuzzy_rules' = train_rules(counts)
          /\ weights_file' = TrainOutput(train_rules(counts), parameters)
    /\ pc' = "saved"
    /\ UNCHANGED <<extractVars_but_pc, parameters, data_rules_fired,
                   not_data_rules_fired, label_confidences, callVars, loaded>>

\* PYTHEAS.load_weights, called by another model object on the document:
\* self.fuzzy_rules = json.load(json_file)
load_weights ==
    /\ pc = "saved"
    /\ loaded' = json_load(weights_file)
    /\ pc' = "reloaded"
    /\ UNCHANGED <<extractVars_but_pc, scoreVars, callVars, weights_file>>

NextWeights ==
    \/ save_weights
    \/ learn_and_save_weights
    \/ load_weights

SpecWeights == InitWeights /\ [][NextWeights]_vars

(* --------------------- the subheaders of a data section ---------------- *)
\* rows of a grid handed to the subheader predictors
MaxSubheaderRows == 4
SubheaderGrids ==
    UNION {[0..(k - 1) -> {DataRow, SubRow, BlankRow}] : k \in 1..MaxSubheaderRows}

\* the candidates that reach the comparison of the two scores: the first
\* value is not null, is not a first-column data value, and the row above is
\* neither blank nor a header
ScoredCandidates(cand_data, candidates, pat_headers, is_new) ==
    {r \in CandidateSubheaders(cand_data, candidates, is_new) :
        /\ grid[r][1] \notin {"", NaN, "none", "null"}
        /\ grid[r][1] \notin FirstColumnDataValues(cand_data, candidates, is_new)
        /\ (r - 1) \notin blank_lines
        /\ (r - 1) \notin pat_headers}

InitSubheaders ==
    /\ CallIdle
    /\ grid \in SubheaderGrids
    /\ pc = "subheaders"
    /\ in_loop = FALSE
    /\ file_offset = 0
    /\ table_counter = 1
    /\ discovered_tables = <<>>
    /\ discovered_table = None
    /\ found = None
    /\ headers_discovered = <<>>
    /\ call = NoCall
    /\ walk = NoWalk
    /\ fuzzy_rules = TrainedRules
    /\ parameters = DefaultParameters
    /\ data_rules_fired = <<>>
    /\ not_data_rules_fired = <<>>
    /\ label_confidences = <<>>

\* a call of one of the two predictors on the rows from data_section_start
\* on; the rows above it that have a payload are the header; scored_data is
\* the set of scored candidates with cell_data_score > cell_not_data_score
SubheaderCall(is_new) ==
    /\ \E data_section_start \in Rows :
       LET cand_data == {r \in Rows : r >= data_section_start}
           pat_headers == {r \in Rows : r < data_section_start /\ ~PayloadNull(grid[r])}
       IN \E candidates \in SUBSET {r \in cand_data : PayloadNull(grid[r])} :
          \E scored_data \in
                SUBSET ScoredCandidates(cand_data, candidates, pat_headers, is_new) :
             LET ps == predict_subheaders_common(cand_data, candidates, pat_headers,
                                                 scored_data, is_new)
             IN call' = [active |-> TRUE,
                         cand_data |-> cand_data,
                         candidates |-> candidates,
                         pat_headers |-> pat_headers,
                         scored_data |-> scored_data,
                         is_new |-> is_new,
                         predicted_pat_sub_headers |-> DOMAIN ps.subheader_scope]
    /\ pc' = "predicted"
    /\ UNCHANGED <<grid, in_loop, file_offset, table_counter, discovered_tables,
                   discovered_table, found, headers_discovered, walk, scoreVars,
                   callVars, weightVars>>

\* predict_subheaders
PredictSubheaders == pc = "subheaders" /\ SubheaderCall(FALSE)

\* predict_subheaders_new
PredictSubheadersNew == pc = "subheaders" /\ SubheaderCall(TRUE)

NextSubheaders ==
    \/ PredictSubheaders
    \/ PredictSubheadersNew

SpecSubheaders == InitSubheaders /\ [][NextSubheaders]_vars

(* ---------------------- the worker pool over the files ----------------- *)
\* files handed to learn_and_save_weights, and processes of its pool
NINPUTS == 3
NPROC == 2
Tasks == 1..NINPUTS

\* what happens to a file: it is processed, a statement inside the try block
\* of rules_fired_in_file raises, or get_dataframe, called before the try
\* block, raises
Fates == {"ok", "scan_fails", "read_fails"}

\* rules_fired_in_file(task) as the pool sees it: the tuple it returns, the
\* Exception it returns, or the exception that leaves it
rules_fired_in_file(task, fate) ==
    IF fate = "read_fails" THEN [kind |-> "raised", datafile_key |-> task]
    ELSE IF fate = "scan_fails" THEN [kind |-> "Exception", datafile_key |-> task]
    ELSE [kind |-> "result", datafile_key |-> task]

InitPool ==
    /\ ScoreIdle
    /\ CallIdle
    /\ grid = <<>>
    /\ pc = "collect"
    /\ in_loop = FALSE
    /\ file_offset = 0
    /\ table_counter = 1
    /\ discovered_tables = <<>>
    /\ discovered_table = None
    /\ found = None
    /\ headers_discovered = <<>>
    /\ walk = NoWalk
    /\ \E files \in [Tasks -> Fates] :
          call = [active |-> TRUE,
                  files |-> files,
                  waiting |-> [k \in Tasks |-> k],
                  running |-> {},
                  outbox |-> <<>>,
                  combined_data |-> <<>>,
                  pbar |-> 0]

\* a process of the pool takes the next task
PoolDispatch ==
    /\ pc = "collect"
    /\ call.waiting # <<>>
    /\ Cardinality(call.running) < NPROC
    /\ call' = [call EXCEPT !.running = @ \cup {Head(call.waiting)},
                            !.waiting = Tail(@)]
    /\ UNCHANGED <<grid, pc, in_loop, file_offset, table_counter, discovered_tables,
                   discovered_table, found, headers_discovered, walk, scoreVars,
                   callVars, weightVars>>

\* a process ends its task; imap_unordered hands the outcomes on in the
\* order in which they arrive
WorkerReturn ==
    /\ pc = "collect"
    /\ \E task \in call.running :
          call' = [call EXCEPT
                      !.running = @ \ {task},
                      !.outbox = Append(@, rules_fired_in_file(task, call.files[task]))]
    /\ UNCHANGED <<grid, pc, in_loop, file_offset, table_counter, discovered_tables,
                   discovered_table, found, headers_discovered, walk, scoreVars,
                   callVars, weightVars>>

\* one round of the for loop over pool.imap_unordered: an exception that left
\* the worker is raised again by the iterator, leaves the loop and the with
\* block, and the pool is terminated
CollectNext ==
    /\ pc = "collect"
    /\ call.outbox # <<>>
    /\ LET r == Head(call.outbox) IN
       IF r.kind = "raised"
       THEN /\ call' = [call EXCEPT !.waiting = <<>>, !.running = {}, !.outbox = <<>>]
            /\ pc' = "raised"
       ELSE /\ call' = [call EXCEPT
                           !.outbox = Tail(@),
                           !.combined_data =
                               IF r.kind = "Exception" THEN @ ELSE Append(@, r),
                           !.pbar = @ + 1]
            /\ pc' = IF call.pbar + 1 = NINPUTS THEN "reduce" ELSE "collect"
    /\ UNCHANGED <<grid, in_loop, file_offset, table_counter, discovered_tables,
                   discovered_table, found, headers_discovered, walk, scoreVars,
                   callVars, weightVars>>

NextPool ==
    \/ PoolDispatch
    \/ WorkerReturn
    \/ CollectNext

SpecPool == InitPool /\ [][NextPool]_vars

(* --------------------------- the returned records ---------------------- *)
\* extract_tables has returned discovered_tables
Finished == pc = "done"

TableKeys == DOMAIN discovered_tables
\* the rows data_start..data_end of a record
DataRange(table) == table.data_start..table.data_end
\* the rows top_boundary..bottom_boundary of a record
TableRange(table) == table.top_boundary..table.bottom_boundary

\* C1: in every record returned by extract_tables,
\* top_boundary <= data_start <= data_end <= bottom_boundary, and a non-empty
\* header lies between top_boundary and data_start:
\* top_boundary <= header[0] <= header[-1] < data_start
C1_BoundaryOrder ==
    Finished =>
        \A k \in TableKeys :
            LET t == discovered_tables[k] IN
            /\ t.top_boundary <= t.data_start
            /\ t.data_start <= t.data_end
            /\ t.data_end <= t.bottom_boundary
            /\ Len(t.header) > 0 =>
                  /\ t.top_boundary <= t.header[1]
                  /\ t.header[1] <= t.header[Len(t.header)]
                  /\ t.header[Len(t.header)] < t.data_start

\* two records are returned, the second one with a header below its top_boundary
C1_Witness ==
    /\ Finished
    /\ Cardinality(TableKeys) = 2
    /\ Len(discovered_tables[2].header) > 0
    /\ discovered_tables[2].top_boundary < discovered_tables[2].header[1]
    /\ Len(discovered_tables[1].footnotes) = 0

\* C2: in every returned record the header rows, the subheader_scope keys, the
\* aggregation_scope keys, the footnotes and the remaining rows of the data
\* range are pairwise disjoint sets of rows
C2_RowRolesDisjoint ==
    Finished =>
        \A k \in TableKeys :
            LET t == discovered_tables[k]
                header == ToSet(t.header)
                subheaders == DOMAIN t.subheader_scope
                aggregations == DOMAIN t.aggregation_scope
                footnotes == ToSet(t.footnotes)
                data == DataRange(t) \ (subheaders \cup aggregations)
            IN /\ header \cap subheaders = {}
               /\ header \cap aggregations = {}
               /\ header \cap footnotes = {}
               /\ header \cap data = {}
               /\ subheaders \cap aggregations = {}
               /\ subheaders \cap footnotes = {}
               /\ aggregations \cap footnotes = {}
               /\ footnotes \cap data = {}

\* a returned record has header rows, a subheader, an aggregation row and footnotes
C2_Witness ==
    /\ Finished
    /\ \E k \in TableKeys :
          LET t == discovered_tables[k] IN
          /\ Len(t.header) > 0
          /\ DOMAIN t.subheader_scope # {}
          /\ DOMAIN t.aggregation_scope # {}
          /\ Len(t.footnotes) > 0

\* C3: the ranges [top_boundary, bottom_boundary] of the records returned for
\* one grid do not overlap and follow the order of table_counter; a row in no
\* record's range is a blank row or lies between two records
C3_RangesOrdered ==
    (Finished /\ TableKeys # {}) =>
        /\ \A j, k \in TableKeys :
              j < k => discovered_tables[j].bottom_boundary
                           < discovered_tables[k].top_boundary
        /\ \A r \in Rows :
              (\A k \in TableKeys : r \notin TableRange(discovered_tables[k]))
              => \/ r \in blank_lines
                 \/ \E j, k \in TableKeys :
                       /\ discovered_tables[j].bottom_boundary < r
                       /\ r < discovered_tables[k].top_boundary

\* two records are returned, the second one starting at a blank row right
\* below the first one's range
C3_Witness ==
    /\ Finished
    /\ TableKeys = {1, 2}
    /\ discovered_tables[1].bottom_boundary + 1 = discovered_tables[2].top_boundary
    /\ discovered_tables[2].top_boundary \in blank_lines

\* the record stored under table_counter - 1 when discover_next_table returns
\* inside the while loop
Previous == discovered_tables[table_counter - 1]
\* discover_next_table is about to return inside the while loop
Returning == pc = "walked" /\ in_loop

\* the fields of a stored record other than footnotes and bottom_boundary
FrameFields(t) ==
    [top_boundary |-> t.top_boundary, header |-> t.header,
     data_start |-> t.data_start, data_end |-> t.data_end,
     subheader_scope |-> t.subheader_scope,
     aggregation_scope |-> t.aggregation_scope, columns |-> t.columns,
     fdl_confidence |-> t.fdl_confidence,
     data_end_confidence |-> t.data_end_confidence]

\* C4: once a record is stored in discovered_tables, a step that stores a
\* successor record changes only the footnotes and the bottom_boundary of the
\* stored records: top_boundary, header, data_start, data_end,
\* subheader_scope, aggregation_scope, columns, fdl_confidence and
\* data_end_confidence keep their values
C4_StoredRecordFrame ==
    [][(DOMAIN discovered_tables' # TableKeys) =>
          \A k \in TableKeys :
              FrameFields(discovered_tables'[k]) = FrameFields(discovered_tables[k])]_vars

\* the rows between the data_end of the previous record and the data_start
\* of the table found
Gap(previous, table) == Range(previous.data_end + 1, table.data_start)

\* C5: when every row between the previous data_end and the new data_start is
\* a blank row or a row that is not a header row of the new table, the two
\* are merged: no record is added, the merged record takes the data_end of
\* the new table, and its subheader_scope and aggregation_scope hold every
\* key of both tables and the promoted rows of the gap
C5_MergeAcrossGap ==
    [][(/\ Returning
        /\ \A r \in Gap(Previous, found') :
              r \in blank_lines \/ r \notin ToSet(found'.header))
       => /\ DOMAIN discovered_tables' = TableKeys
          /\ LET merged == discovered_tables'[table_counter - 1]
                 promoted == {r \in Gap(Previous, found') :
                                 r \notin blank_lines /\ r \notin ToSet(found'.header)}
             IN /\ merged.data_end = found'.data_end
                /\ (DOMAIN Previous.subheader_scope
                       \cup DOMAIN found'.subheader_scope \cup promoted)
                      \subseteq DOMAIN merged.subheader_scope
                /\ (DOMAIN Previous.aggregation_scope
                       \cup DOMAIN found'.aggregation_scope)
                      \subseteq DOMAIN merged.aggregation_scope]_vars

\* a table found below the top of the stored record has been merged into it,
\* a non-blank row of the gap being now a subheader of the merged record
C5_Witness ==
    /\ pc = "discover"
    /\ in_loop
    /\ found # None
    /\ (table_counter - 1) \in TableKeys
    /\ Previous.top_boundary < found.top_boundary
    /\ Previous.data_end = found.data_end
    /\ \E r \in Range(found.top_boundary, found.data_start) :
          r \notin blank_lines /\ r \in DOMAIN Previous.subheader_scope

\* the row is not a header, data, subheader or footnote row of the record
Unclaimed(r, t) ==
    /\ r \notin ToSet(t.header)
    /\ r \notin DataRange(t)
    /\ r \notin DOMAIN t.subheader_scope
    /\ r \notin ToSet(t.footnotes)

\* one blank row lies between the previous data_end and the first row
\* (header or data) of the table found
SeparatedByBlank(previous, table) ==
    /\ (previous.data_end + 1) \in blank_lines
    /\ Min(ToSet(table.header) \cup {table.data_start}) = previous.data_end + 2

\* the table found is stored as a record of its own and the blank row above
\* it is claimed neither by it nor by the record above
KeptApart ==
    /\ DOMAIN discovered_tables' = TableKeys \cup {table_counter}
    /\ table_counter \notin TableKeys
    /\ (Previous.data_end + 1) \in blank_lines
    /\ Unclaimed(Previous.data_end + 1, discovered_tables'[table_counter - 1])
    /\ Unclaimed(Previous.data_end + 1, discovered_tables'[table_counter])

\* C6: when two tables are separated only by a blank row, two records are
\* stored (no merge), the blank row is a blank line and it is not a header,
\* data, subheader or footnote row of either record
C6_BlankRowSeparates ==
    [][(Returning /\ SeparatedByBlank(Previous, found')) => KeptApart]_vars

\* C6 as the code has it: when two tables are separated only by a blank row
\* and the second one has a header row, two records are stored (no merge),
\* the blank row is a blank line and it is not a header, data, subheader or
\* footnote row of either record
C6_BlankRowSeparatesHeaded ==
    [][(/\ Returning
        /\ SeparatedByBlank(Previous, found')
        /\ Len(found'.header) > 0) => KeptApart]_vars

\* two records are stored, the second one with its header right below the
\* blank row that follows the data of the first one
C6_Witness ==
    /\ pc = "discover"
    /\ in_loop
    /\ found # None
    /\ TableKeys = {1, 2}
    /\ Len(found.header) > 0
    /\ SeparatedByBlank(discovered_tables[1], found)
    /\ discovered_tables[2].top_boundary = found.top_boundary

\* the rows a subheader covers: up to the next subheader, or to data_end
ScopeOf(t, s) ==
    LET later == {k \in DOMAIN t.subheader_scope : k > s}
    IN RangeList(s + 1, IF later # {} THEN Min(later) ELSE t.data_end + 1)

\* C7: in every returned record the subheader_scope keys lie in
\* [data_start, data_end], the scope of a subheader is exactly the rows after
\* it up to the next subheader (up to data_end for the last one), and no two
\* scopes overlap
C7_SubheaderScopes ==
    Finished =>
        \A k \in TableKeys :
            LET t == discovered_tables[k] IN
            /\ \A s \in DOMAIN t.subheader_scope :
                  /\ s \in DataRange(t)
                  /\ t.subheader_scope[s] = ScopeOf(t, s)
            /\ \A s1, s2 \in DOMAIN t.subheader_scope :
                  s1 # s2 => ToSet(t.subheader_scope[s1])
                                \cap ToSet(t.subheader_scope[s2]) = {}

\* the row has an aggregation phrase in its first cell and a number after it
IsAggregationRow(r) ==
    HasAggregationPhrase(grid[r][1]) /\ contains_number(Tail(grid[r]))

\* the walk ends at the row as at a footnote
IsFootnoteRow(r) == NarrowRow(grid[r]) /\ NarrowFootnote(grid[r])

AllHeaderRows == UNION {ToSet(discovered_tables[k].header) : k \in TableKeys}

\* C9: over all the records returned for one grid the header rows are unique:
\* no two header rows have the same comma-joined string
C9_HeadersUniqueByString ==
    Finished =>
        \A h1, h2 \in AllHeaderRows :
            JoinRow(grid[h1]) = JoinRow(grid[h2]) => h1 = h2

\* C9 as the code has it: over all the records returned for one grid no row
\* is a header row twice (of two records, or twice in one header list), and
\* headers_discovered holds the comma-joined string of every header row; the
\* strings of two header rows may be equal
C9_HeadersUniqueByRow ==
    Finished =>
        /\ \A j, k \in TableKeys :
              j # k => ToSet(discovered_tables[j].header)
                          \cap ToSet(discovered_tables[k].header) = {}
        /\ \A k \in TableKeys :
              Cardinality(ToSet(discovered_tables[k].header))
                  = Len(discovered_tables[k].header)
        /\ \A h \in AllHeaderRows :
              /\ h \in DOMAIN headers_discovered
              /\ headers_discovered[h] = JoinRow(grid[h])

\* two records are returned whose header rows have the same joined string
C9_Witness ==
    /\ Finished
    /\ \E j, k \in TableKeys :
          /\ j # k
          /\ \E h1 \in ToSet(discovered_tables[j].header),
                h2 \in ToSet(discovered_tables[k].header) :
                JoinRow(grid[h1]) = JoinRow(grid[h2])

\* C10: when extract_tables returns at least one record, the footnotes of the
\* last record are exactly the non-blank rows after its data_end, in increasing
\* order, and its bottom_boundary is not above its last footnote
C10_LastTableFootnotes ==
    (Finished /\ TableKeys # {}) =>
        LET t == discovered_tables[Max(TableKeys)]
            trailing == {r \in Rows : r > t.data_end /\ r \notin blank_lines}
        IN /\ ToSet(t.footnotes) = trailing
           /\ Len(t.footnotes) = Cardinality(trailing)
           /\ \A i \in 1..(Len(t.footnotes) - 1) : t.footnotes[i] < t.footnotes[i + 1]
           /\ Len(t.footnotes) > 0 => t.bottom_boundary >= t.footnotes[Len(t.footnotes)]

\* the last record is followed by non-blank rows and by a blank row
C10_Witness ==
    /\ Finished
    /\ TableKeys # {}
    /\ LET t == discovered_tables[Max(TableKeys)] IN
       /\ Len(t.footnotes) > 0
       /\ \E r \in blank_lines : r > t.data_end

(* ------------------------- the pattern summaries ----------------------- *)
\* the summaries data_initialize and not_data_initialize compute from
\* scratch for the rows from the first data line to line_label
BatchPatterns(predicted_fdl, line_label) ==
    collect_line_rules(NoPatterns, predicted_fdl, line_label)

\* C11: at every row the walk scores, the summary_strength and the
\* disagreement_summary_strength kept incrementally for each column equal
\* those a batch recomputation gives over the rows from the table's first
\* data line to that row.
C11_IncrementalEqualsBatch ==
    [][(pc = "walk" /\ IsScored(walk))
         => walk'.patterns = BatchPatterns(call.pat_first_data_line, walk.line_label)]_vars

(* ------------------------------ the columns ---------------------------- *)
\* the columns that are not entirely null over the header rows and the data
\* rows data_start..data_end of a table
NonNullColumns(t) ==
    {c \in 0..2 : \E r \in ToSet(t.header) \cup DataRange(t) : grid[r][c + 1] # NaN}

\* C12: for every emitted table, merged tables included, the column
\* indices of `columns` are exactly the columns that are not entirely null
\* over the table's header rows and its data rows data_start..data_end.
C12_ColumnsNotAllNull ==
    Finished =>
        \A k \in TableKeys : discovered_tables[k].columns = NonNullColumns(discovered_tables[k])

(* --------------------------- identical rows ---------------------------- *)
\* every row of the grid has the same cells
IdenticalRows == \A r \in Rows, q \in Rows : grid[r] = grid[q]

\* C13: for a grid whose rows are all syntactically identical the
\* extractor returns at most one table, and every non-blank row is a header
\* row or a data row of it, never a subheader.
C13_IdenticalRowsOneTable ==
    (Finished /\ IdenticalRows) =>
        /\ Cardinality(TableKeys) <= 1
        /\ \A k \in TableKeys :
              LET t == discovered_tables[k] IN
              /\ DOMAIN t.subheader_scope = {}
              /\ \A r \in Rows \ blank_lines :
                    r \in ToSet(t.header) \cup DataRange(t)

(* ------------------------- data_end_confidence ------------------------- *)
\* C14: the data_end_confidence of each table is the confidence of the
\* last row its own walk accepted: a table enters the result with the
\* confidence discover_next_table returned for it, and a stored table whose
\* data_end stays the same keeps its confidence when a later table is found.
C14_OwnWalkConfidence ==
    [][\A k \in DOMAIN discovered_tables' :
          LET t == discovered_tables'[k] IN
          /\ k \notin TableKeys => t.data_end_confidence = found'.data_end_confidence
          /\ (k \in TableKeys /\ discovered_tables[k].data_end = t.data_end)
                => t.data_end_confidence = discovered_tables[k].data_end_confidence]_vars

(* --------------------------- failures of a call ------------------------ *)
\* infer_annotations or infer_annotations_from_df is over
CallOver == pc = "returned"
\* an exception was raised in the try block of the call
Failed == raised # "none"

\* C15: when an exception was raised while the file was scanned, be it after
\* some tables were discovered, the call returns None: it returns no
\* annotation record, filled or partly filled, and no exception reaches the
\* caller.
C15_FailureReturnsNone ==
    (CallOver /\ Failed) =>
        /\ result.returned
        /\ result.value = None
        /\ result.propagated = "none"

\* an exception raised after a table was stored, and None returned
C15_Witness ==
    /\ CallOver
    /\ Failed
    /\ DOMAIN discovered_tables # {}
    /\ result.returned
    /\ result.value = None

(* ------------------------------ invalid input -------------------------- *)
\* the grid has no row
EmptyGrid == Rows = {}
\* a rule id that fired on a cell has no entry in the catalogue
MissingRuleId ==
    \E r \in DOMAIN data_rules_fired : \E c \in DOMAIN data_rules_fired[r].cells :
        KeyErrorIn(data_rules_fired[r].cells[c].agreements, fuzzy_rules.cell.data)
InvalidInput == EmptyGrid \/ MissingRuleId

\* C16: a call on an invalid input, an empty grid or a catalogue without a
\* rule id it needs, ends with an error that reaches the caller: it does not
\* end with an annotation record or with a captured failure.
C16_InvalidInputSurfaced ==
    (CallOver /\ InvalidInput) => result.propagated # "none"

(* ------------------------------ the scores ----------------------------- *)
\* a call of get_class_confidences is scoring rows
Scoring == pc = "score"
ScoredRowIndexes == 1..Len(data_rules_fired)

\* the weights of the events whose weight is not None and at least lower_bound
Qualifying(events, rules, lower_bound) ==
    {rules[events[i]][1] :
        i \in {j \in 1..Len(events) :
                 rules[events[j]] # NoWeight /\ rules[events[j]][1] >= lower_bound}}

\* max_score gives the largest qualifying weight, 0 when there is none
LargestQualifying(events, rules, lower_bound) ==
    max_score(events, rules, lower_bound) =
        IF Qualifying(events, rules, lower_bound) = {} THEN 0
        ELSE Max(Qualifying(events, rules, lower_bound))

\* C17: max_score(E, R, lb) is the largest weight among the fired rules
\* of E whose weight in R is not null and is at least lb, and 0 when E is
\* empty or no fired rule qualifies; a rule with a null weight has no
\* influence on the result.
C17_MaxScoreLargestQualifying ==
    Scoring =>
        \A r \in ScoredRowIndexes : \A c \in 1..2 :
            /\ LargestQualifying(data_rules_fired[r].cells[c].agreements,
                                 fuzzy_rules.cell.data, parameters.weight_lower_bound)
            /\ LargestQualifying(not_data_rules_fired[r].cells[c].disagreements,
                                 fuzzy_rules.cell.not_data,
                                 parameters.not_data_weight_lower_bound)

\* a cell fired a rule without weight, a rule below the bound and a rule
\* whose weight is the bound, and max_score gave the bound; another cell of
\* the row fired nothing and max_score gave 0
C17_Witness ==
    /\ Scoring
    /\ \E r \in ScoredRowIndexes :
          LET events == data_rules_fired[r].cells[1].agreements
              rules == fuzzy_rules.cell.data
              bound == parameters.weight_lower_bound
          IN /\ \E i \in 1..Len(events) : rules[events[i]] = NoWeight
             /\ \E i \in 1..Len(events) :
                   rules[events[i]] # NoWeight /\ rules[events[i]][1] < bound
             /\ max_score(events, rules, bound) = bound
             /\ data_rules_fired[r].cells[2].agreements = <<>>
             /\ max_score(data_rules_fired[r].cells[2].agreements, rules, bound) = 0

(* ------------------------- the probabilistic sum ----------------------- *)
\* the confidences of the rows above row r, as the loop holds them
ConfidencesAbove(r, i) == [k \in 1..(r - 1) |-> label_confidences[k][i]]

\* line_is_data_evidence and line_not_data_evidence of the scored row r
EvidenceOf(r) ==
    RowEvidence(data_rules_fired, not_data_rules_fired, ConfidencesAbove(r, 1),
                ConfidencesAbove(r, 2), r, fuzzy_rules, parameters)

\* the two evidence lists of the row scored last
EvidenceLists ==
    IF data_rules_fired = <<>> THEN {}
    ELSE {EvidenceOf(Len(data_rules_fired)).is_data,
          EvidenceOf(Len(data_rules_fired)).not_data}

\* the product of Scale - s over the scores of the list, not rounded: its
\* unit is 1 / Scale ^ Len(line_scores)
RECURSIVE ExactProduct(_)
ExactProduct(line_scores) ==
    IF line_scores = <<>> THEN 1
    ELSE (Scale - Head(line_scores)) * ExactProduct(Tail(line_scores))

Abs(x) == IF x < 0 THEN 0 - x ELSE x

\* the result is 1 minus the product of the 1 - s, every score taken as
\* often as it occurs, to the precision of a score: half a unit for each
\* power and each multiplication that is rounded
OneMinusProduct(line_scores) ==
    LET n == Len(line_scores)
        keys == Len(ScoreKeys(line_scores))
    IN IF n = 0 THEN probabilistic_sum(line_scores) = 0
       ELSE 2 * Abs((Scale - probabilistic_sum(line_scores)) * Scale ^ (n - 1)
                    - ExactProduct(line_scores))
                <= (2 * keys - 1) * Scale ^ (n - 1)

\* C18: probabilistic_sum returns 1 minus the product of (1 - s) over
\* the evidence scores, each counted with its multiplicity, and appending a
\* positive score (0 < s <= 1) to a list of scores in [0, 1] never gives a
\* smaller confidence.
C18_ProbabilisticSum ==
    Scoring =>
        \A line_scores \in EvidenceLists :
            /\ OneMinusProduct(line_scores)
            /\ \A score \in 1..Scale :
                  probabilistic_sum(Append(line_scores, score))
                      >= probabilistic_sum(line_scores)

\* a list holds a positive score twice, its sum is below 1, and another
\* occurrence of that score raises the sum
C18_Witness ==
    /\ Scoring
    /\ \E line_scores \in EvidenceLists :
          /\ Len(line_scores) >= 2
          /\ line_scores[1] = line_scores[2]
          /\ line_scores[1] > 0
          /\ probabilistic_sum(line_scores) < Scale
          /\ probabilistic_sum(Append(line_scores, line_scores[1]))
                 > probabilistic_sum(line_scores)

(* --------------------------- the order of rules ------------------------ *)
\* the lists that hold the events of a list in another order
Reordered(events) ==
    {[i \in 1..Len(events) |-> events[f[i]]] : f \in Permutations(1..Len(events))}

\* the confidences of the row scored last when its fired rules are listed
\* as agreements, disagreements (first column), line and not_data_line
ReorderedConfidences(agreements, disagreements, line, not_data_line) ==
    LET r == Len(data_rules_fired)
        drf == [data_rules_fired EXCEPT ![r].cells[1].agreements = agreements,
                                        ![r].line = line]
        ndrf == [not_data_rules_fired EXCEPT
                    ![r].cells[1].disagreements = disagreements,
                    ![r].line = not_data_line]
        evidence == RowEvidence(drf, ndrf, ConfidencesAbove(r, 1),
                                ConfidencesAbove(r, 2), r, fuzzy_rules, parameters)
    IN <<probabilistic_sum(evidence.is_data), probabilistic_sum(evidence.not_data)>>

\* C19: the pair (data_conf, not_data_conf) of a row is the same for
\* every order in which its fired rules are listed: the agreements and the
\* disagreements of a cell and the data and not-data line rules.
C19_RuleOrderIrrelevant ==
    (Scoring /\ data_rules_fired # <<>>) =>
        LET r == Len(data_rules_fired) IN
        \A agreements \in Reordered(data_rules_fired[r].cells[1].agreements),
           disagreements \in Reordered(not_data_rules_fired[r].cells[1].disagreements),
           line \in Reordered(data_rules_fired[r].line),
           not_data_line \in Reordered(not_data_rules_fired[r].line) :
            ReorderedConfidences(agreements, disagreements, line, not_data_line)
                = label_confidences[r]

(* ----------------------------- impute_nulls ---------------------------- *)
\* get_class_confidences on the rows of the call with impute_nulls as given
ConfidencesWith(impute_nulls) ==
    get_class_confidences(data_rules_fired, not_data_rules_fired, fuzzy_rules,
                          [parameters EXCEPT !.impute_nulls = impute_nulls])

\* no cell of the row is null
NoNullCell(r) ==
    \A c \in DOMAIN data_rules_fired[r].cells :
        ~data_rules_fired[r].cells[c].null_equivalent

\* the row is classified as data: data_conf > not_data_conf
IsDataIn(scored, r) ==
    scored.data_line_confidences[r] > scored.not_data_line_confidences[r]

\* C20: for the same rows and catalogue, a row without null cells that
\* is non-data (data_conf <= not_data_conf) with impute_nulls = true is not
\* data with impute_nulls = false.
C20_ImputeOffNoNewData ==
    Scoring =>
        \A r \in ScoredRowIndexes :
            (NoNullCell(r) /\ ~IsDataIn(ConfidencesWith(TRUE), r))
                => ~IsDataIn(ConfidencesWith(FALSE), r)

(* ------------------------- the cell that is scored --------------------- *)
\* the cell get_class_confidences scores for cell (r, c) of the call when
\* impute_nulls is false
ScoredCellImputeOff(r, c) ==
    LET off == ConfidencesWith(FALSE)
    IN ScoredCell(data_rules_fired, off.data_line_confidences,
                  off.not_data_line_confidences, r, c,
                  [parameters EXCEPT !.impute_nulls = FALSE])

\* C21: with impute_nulls = false every cell is scored from its own
\* agreements and its own summary_strength, never from those of another row.
C21_ImputeOffOwnAgreements ==
    Scoring =>
        \A r \in ScoredRowIndexes : \A c \in DOMAIN data_rules_fired[r].cells :
            LET own == data_rules_fired[r].cells[c]
                scored == ScoredCellImputeOff(r, c)
            IN /\ scored.agreements = own.agreements
               /\ scored.summary_strength = own.summary_strength

(* ---------------------------- window lengths --------------------------- *)
\* the context windows of the rows are being collected
Collecting == pc = "collect"

\* C22: the summary_strength and the disagreement_summary_strength of every
\* window, of the whole-grid rule collection and of the top-down walk, is at
\* most max_summary_strength.
C22_WindowAtMostMaxStrength ==
    Collecting =>
        /\ \A r \in DOMAIN data_rules_fired : \A c \in 1..3 :
              /\ data_rules_fired[r].cells[c].summary_strength
                     <= parameters.max_summary_strength
              /\ not_data_rules_fired[r].cells[c].disagreement_summary_strength
                     <= parameters.max_summary_strength
        /\ walk.active => \A c \in 1..3 :
              /\ walk.patterns.data[c].summary_strength
                     <= parameters.max_summary_strength
              /\ walk.patterns.not_data[c].disagreement_summary_strength
                     <= parameters.max_summary_strength

(* --------------------------- persisted catalogue ----------------------- *)
\* a persisted catalogue has been read back with load_weights
Reloaded == pc = "reloaded"

\* C23: the catalogue read back with load_weights equals the catalogue that
\* was persisted, by save_weights or by learn_and_save_weights: the four maps
\* with the weight, confidence and coverage of every rule, None staying None.
C23_ReloadedEqualsPersisted ==
    Reloaded => loaded = fuzzy_rules

(* ------------------------- the returned annotation --------------------- *)
\* the fields of a table record of the data model
TableRecordFields ==
    {"top_boundary", "bottom_boundary", "data_start", "data_end", "header",
     "footnotes", "columns", "subheader_scope", "aggregation_scope",
     "fdl_confidence", "data_end_confidence"}

\* the call returned an annotation record
AnnotationReturned == CallOver /\ result.value # None

\* the fields that hold row indices of the grid
RowIndexes(table) ==
    {table.top_boundary, table.bottom_boundary, table.data_start, table.data_end}
    \cup ToSet(table.header) \cup ToSet(table.footnotes)

\* C24: every table of the annotation a call returns has every field of the
\* table record: subheader_scope, aggregation_scope, fdl_confidence and
\* data_end_confidence as well as the boundaries, data_start, data_end,
\* header, footnotes and columns, and its row indices are rows of the grid
\* counted from zero.
C24_TablesCarryRecordFields ==
    AnnotationReturned =>
        \A i \in DOMAIN result.value.tables :
            /\ TableRecordFields \subseteq DOMAIN result.value.tables[i]
            /\ RowIndexes(result.value.tables[i]) \subseteq Rows

(* ------------------------- the rows the walk takes --------------------- *)
\* the walk is about to visit the row walk.line_label
Walking == pc = "walk"
\* the row is one of the first ForcedLines rows of the walk, or an
\* aggregation row
ForcedRow ==
    walk.line_counter < ForcedLines \/ walk.line_label \in walk.aggregation_rows
\* the row is blank, a predicted subheader, or a narrow row with a footnote
\* marker: the walk treats it before it looks at line_counter
TreatedBeforeForce ==
    \/ walk.line_label \in blank_lines
    \/ walk.line_label \in walk.predicted_pat_sub_headers
    \/ NarrowRow(grid[walk.line_label]) /\ NarrowFootnote(grid[walk.line_label])
\* the step made the visited row part of the data
Accepted ==
    /\ walk.line_label \in walk'.data_index
    /\ walk'.predicted_ldl = walk.line_label

\* C25: each of the first three rows of the walk and every aggregation row
\* is accepted as data, whatever its confidences.
C25_ForcedRowsAccepted ==
    [][(Walking /\ ForcedRow) => Accepted]_vars

\* C25, amended: each of the first three rows of the walk and every
\* aggregation row that is not blank, not a predicted subheader and not a
\* narrow row with a footnote marker is accepted as data, whatever its
\* confidences.
C25_ForcedRowsAcceptedUnlessTreated ==
    [][(Walking /\ ForcedRow /\ ~TreatedBeforeForce) => Accepted]_vars

\* an aggregation row below the first three rows of the walk was accepted
C25_Witness ==
    /\ pc \in {"walk", "walked"}
    /\ \E r \in walk.aggregation_rows \cap walk.data_index :
          r >= call.pat_first_data_line + ForcedLines

(* ------------------------------- probation ----------------------------- *)
\* the row above the visited row is neither blank nor on probation
PreviousSettled ==
    /\ (walk.line_label - 1) \notin blank_lines
    /\ (walk.line_label - 1) \notin walk.probation

\* the step scored the visited row with these confidences and this
\* standalone prediction
ScoredWith(data_conf, not_data_conf, label) ==
    /\ Walking
    /\ IsScored(walk)
    /\ walk' = KeptLocals(WalkLine(walk, data_conf, not_data_conf, label))

\* the step put the visited row on probation: the row is not accepted and
\* the walk goes on with the next row
OnProbation ==
    /\ walk.line_label \in walk'.probation
    /\ walk.line_label \notin walk'.data_index
    /\ walk'.line_label = walk.line_label + 1

\* C26: a scored row is put on probation whenever the row above it is neither
\* blank nor on probation, its data_conf is less than its not_data_conf and
\* its standalone prediction is not DATA.
C26_ProbationWhenever ==
    [][\A data_conf \in 0..MaxConf, not_data_conf \in 0..MaxConf :
          (/\ ScoredWith(data_conf, not_data_conf, "NOT_DATA")
           /\ PreviousSettled
           /\ data_conf < not_data_conf)
              => OnProbation]_vars

\* the visited row has as many values as the widest accepted row and the
\* row above it was accepted: the walk takes it as data without probation
AsWideAsData ==
    /\ walk.certain_data_widths # {}
    /\ non_empty_values(grid[walk.line_label]) = Max(walk.certain_data_widths)
    /\ (walk.line_label - 1) \in walk.data_index

\* C26, amended: a scored row is put on probation whenever the row above it
\* is neither blank nor on probation, its data_conf is less than its
\* not_data_conf, its standalone prediction is not DATA, and the row is not
\* as wide as the widest accepted row right below an accepted row.
C26_ProbationUnlessAsWide ==
    [][\A data_conf \in 0..MaxConf, not_data_conf \in 0..MaxConf :
          (/\ ScoredWith(data_conf, not_data_conf, "NOT_DATA")
           /\ PreviousSettled
           /\ data_conf < not_data_conf
           /\ ~AsWideAsData)
              => OnProbation]_vars

\* a scored row is on probation and the walk is at the next row
C26_Witness ==
    /\ Walking
    /\ (walk.line_label - 1) \in walk.probation
    /\ (walk.line_label - 1) \notin walk.data_index

(* ------------------------ the row after a probation -------------------- *)
\* the visited row follows a row on probation
AfterProbation == Walking /\ (walk.line_label - 1) \in walk.probation
\* the step ended the walk at the visited row (break)
Stopped == pc' = "walked" /\ walk'.line_label = walk.line_label
\* the visited row is a predicted subheader whose first cell carries no
\* footnote keyword and no enumerator: the walk passes over it
PassedOver ==
    /\ walk.line_label \in walk.predicted_pat_sub_headers
    /\ ~SubheaderFootnote(grid[walk.line_label][1])
\* no two rows on probation follow each other
NoTwoInARow(probation) == \A r \in probation : (r + 1) \notin probation

FootnoteMarker(c) ==
    \/ StartsWithFootnoteKeyword(c)
    \/ StartsWithEnumerator(c)
    \/ StartsWithParenDigit(c)
    \/ StartsWithParenOne(c)
\* the visited row is not blank and its first cell starts with a footnote
\* marker or contains "=", or its payload is null and its first cell matches
\* a footnote marker
FootnoteMarked ==
    LET row == grid[walk.line_label] IN
    /\ walk.line_label \notin blank_lines
    /\ \/ FootnoteMarker(row[1])
       \/ ContainsEquals(row[1])
       \/ PayloadNull(row) /\ (FootnoteMarker(row[1]) \/ StartsWithParen(row[1]))
\* the step ended the walk at the visited row, and neither that row nor a
\* row below it is part of the data
StoppedAbove ==
    /\ Stopped
    /\ \A r \in walk'.data_index : r < walk.line_label

HeaderAgain ==
    \E h \in DOMAIN headers_discovered :
        JoinRow(grid[walk.line_label]) = headers_discovered[h]

\* C29: a row of the walk whose comma-joined cells equal those of a header
\* row discovered before is never accepted as data: it ends the walk.
C29_HeaderAgainStops ==
    [][(Walking /\ HeaderAgain) => (~Accepted /\ Stopped)]_vars

\* C29, amended: a row of the walk below its first three rows, not an
\* aggregation row, whose comma-joined cells equal those of a header row
\* discovered before is never accepted as data: it ends the walk, unless it
\* is a predicted subheader that the walk passes over.
C29_HeaderAgainStopsUnlessForced ==
    [][(Walking /\ HeaderAgain /\ ~ForcedRow) =>
          /\ ~Accepted
          /\ walk.line_label \notin walk'.data_index
          /\ Stopped \/ PassedOver]_vars

\* the walk ended at a row below its first three rows that repeats a header
C29_Witness ==
    /\ pc = "walked"
    /\ walk.line_label \in Rows
    /\ walk.line_label \notin blank_lines
    /\ walk.line_counter > ForcedLines
    /\ walk.line_label \notin walk.predicted_pat_sub_headers
    /\ ~NarrowRow(grid[walk.line_label])
    /\ \E h \in DOMAIN headers_discovered :
          JoinRow(grid[walk.line_label]) = headers_discovered[h]
    /\ walk.line_label \notin walk.data_index

(* ------------------------- candidate subheaders ------------------------ *)
\* a predictor of subheaders has returned
SubheadersPredicted == pc = "predicted"
\* the candidates whose two scores the call compared
Compared ==
    ScoredCandidates(call.cand_data, call.candidates, call.pat_headers, call.is_new)
\* the two rows above are predicted subheaders, or the row is the last of
\* the candidate data: the row is not promoted whatever its scores
NeverPromoted(r) ==
    \/ /\ (r - 1) \in call.predicted_pat_sub_headers
       /\ (r - 2) \in call.predicted_pat_sub_headers
    \/ r = Max(call.cand_data)

\* C30: a candidate subheader is kept as data if its first-column cell data
\* score is greater than its cell not-data score, and is promoted to
\* subheader otherwise.
C30_ScoresDecide ==
    SubheadersPredicted =>
        \A r \in Compared :
            r \in call.predicted_pat_sub_headers <=> r \notin call.scored_data

\* C30, amended: a candidate subheader whose scores are compared is kept as
\* data if its cell data score is greater than its cell not-data score;
\* otherwise it is promoted to subheader, unless the two rows above it are
\* predicted subheaders or it is the last row of the candidate data.
C30_ScoresDecideUnlessNeverPromoted ==
    SubheadersPredicted =>
        \A r \in Compared :
            /\ r \in call.scored_data => r \notin call.predicted_pat_sub_headers
            /\ (r \notin call.scored_data /\ ~NeverPromoted(r))
                  => r \in call.predicted_pat_sub_headers

\* one compared candidate was kept as data on its scores and another was
\* promoted
C30_Witness ==
    /\ SubheadersPredicted
    /\ \E r \in Compared \cap call.scored_data :
          r \notin call.predicted_pat_sub_headers /\ ~NeverPromoted(r)
    /\ \E r \in Compared \ call.scored_data :
          r \in call.predicted_pat_sub_headers

(* ------------------------------ imputation ---------------------------- *)
\* the cell get_class_confidences scores for cell (r, c) of the call
ScoredCellOf(r, c) ==
    ScoredCell(data_rules_fired, ConfidencesAbove(r, 1), ConfidencesAbove(r, 2),
               r, c, parameters)
\* two cells give the same agreements and the same summary_strength
SameEvents(a, b) ==
    a.agreements = b.agreements /\ a.summary_strength = b.summary_strength
\* the row above row r was classified data
AboveWasData(r) ==
    r > 1 /\ label_confidences[r - 1][1] > label_confidences[r - 1][2]
\* the cell is an aggregate without summary and the row two rows above was
\* classified data: the cell is scored with the cell two rows above
AggregateLookBack(r, c) ==
    /\ data_rules_fired[r].cells[c].summary_strength = 0
    /\ data_rules_fired[r].cells[c].aggregate
    /\ r > 2
    /\ label_confidences[r - 2][1] > label_confidences[r - 2][2]

\* C31: with impute_nulls enabled, a cell that is null-equivalent or whose
\* summary_strength is at most 1 is scored with the agreements and the
\* summary_strength of the cell above it when the row above was classified
\* data; when the row above was not classified data, or there is none, the
\* cell is scored with its own.
C31_ImputedFromDataRowAbove ==
    (Scoring /\ parameters.impute_nulls) =>
        \A r \in ScoredRowIndexes : \A c \in DOMAIN data_rules_fired[r].cells :
            LET own == data_rules_fired[r].cells[c] IN
            /\ ((own.null_equivalent \/ own.summary_strength <= 1) /\ AboveWasData(r))
                  => SameEvents(ScoredCellOf(r, c), data_rules_fired[r - 1].cells[c])
            /\ ~AboveWasData(r) => SameEvents(ScoredCellOf(r, c), own)

\* C31, amended: with impute_nulls enabled, a cell that is null-equivalent
\* or whose summary_strength is exactly 1 is scored with the agreements and
\* the summary_strength of the cell above it when the row above was
\* classified data; when the row above was not classified data, or there is
\* none, the cell is scored with its own; an aggregate cell without summary
\* whose row two rows above was classified data is left aside (it is scored
\* with the cell two rows above).
C31_ImputedUnlessAggregate ==
    (Scoring /\ parameters.impute_nulls) =>
        \A r \in ScoredRowIndexes : \A c \in DOMAIN data_rules_fired[r].cells :
            LET own == data_rules_fired[r].cells[c] IN
            ~AggregateLookBack(r, c) =>
                /\ ((own.null_equivalent \/ own.summary_strength = 1) /\ AboveWasData(r))
                      => SameEvents(ScoredCellOf(r, c), data_rules_fired[r - 1].cells[c])
                /\ ~AboveWasData(r) => SameEvents(ScoredCellOf(r, c), own)

\* a null cell below a data row was scored with the agreements of the cell
\* above it, and a null cell below a row that was not data with its own
C31_Witness ==
    /\ Scoring
    /\ parameters.impute_nulls
    /\ \E r \in ScoredRowIndexes : \E c \in DOMAIN data_rules_fired[r].cells :
          /\ data_rules_fired[r].cells[c].null_equivalent
          /\ AboveWasData(r)
          /\ ScoredCellOf(r, c).agreements # <<>>
          /\ ScoredCellOf(r, c) = data_rules_fired[r - 1].cells[c]
    /\ \E r \in ScoredRowIndexes : \E c \in DOMAIN data_rules_fired[r].cells :
          /\ r > 1
          /\ data_rules_fired[r].cells[c].summary_strength = 1
          /\ ~AboveWasData(r)
          /\ data_rules_fired[r - 1].cells[c] # data_rules_fired[r].cells[c]
          /\ ScoredCellOf(r, c) = data_rules_fired[r].cells[c]

(* ------------------------ the weight of a line rule ------------------- *)
\* the walk has scored a row
WalkScored == pc = "walkscore"
\* the evidence lists of the row the walk scored
WalkEvidenceOf ==
    WalkEvidence(walk.data_rules_fired, walk.not_data_rules_fired, fuzzy_rules,
                 parameters)
\* the score is an entry of the list
Holds(line_scores, score) == \E i \in 1..Len(line_scores) : line_scores[i] = score
\* every event of the list with a weight of at least lower_bound has its
\* weight in the evidence
LineWeightsIn(events, rules, lower_bound, evidence) ==
    \A i \in 1..Len(events) :
        (/\ events[i] \in DOMAIN rules
         /\ rules[events[i]] # NoWeight
         /\ rules[events[i]][1] >= lower_bound)
            => Holds(evidence, rules[events[i]][1])
\* the not-data line events apart from UP_TO_FIRST_COLUMN_COMPLETE_CONSISTENTLY
OtherNotDataEvents(events) ==
    SelectSeq(events, LAMBDA e : e # "UP_TO_FIRST_COLUMN_COMPLETE_CONSISTENTLY")

\* C32: with weight_input = values_and_lines, a fired line rule whose
\* weight is not null and is at least the lower bound of its class adds its
\* weight to the evidence of the row, in get_class_confidences and in the
\* walk.
C32_LineWeightAtLeastBound ==
    /\ (Scoring /\ parameters.weight_input = "values_and_lines") =>
           \A r \in ScoredRowIndexes :
               /\ LineWeightsIn(data_rules_fired[r].line, fuzzy_rules.line.data,
                                parameters.weight_lower_bound, EvidenceOf(r).is_data)
               /\ LineWeightsIn(OtherNotDataEvents(not_data_rules_fired[r].line),
                                fuzzy_rules.line.not_data,
                                parameters.not_data_weight_lower_bound,
                                EvidenceOf(r).not_data)
    /\ (WalkScored /\ parameters.weight_input = "values_and_lines") =>
           /\ LineWeightsIn(walk.data_rules_fired.line, fuzzy_rules.line.data,
                            parameters.weight_lower_bound, WalkEvidenceOf.is_data)
           /\ LineWeightsIn(OtherNotDataEvents(walk.not_data_rules_fired.line),
                            fuzzy_rules.line.not_data,
                            parameters.not_data_weight_lower_bound,
                            WalkEvidenceOf.not_data)


(* ------------------------- rules without a weight ---------------------- *)
\* the events of the list whose rule has a weight
Weighted(events, rules) ==
    SelectSeq(events, LAMBDA e : rules[e] # NoWeight)
\* the events of the list whose rule has a weight, and the
\* ADJACENT_ARITHMETIC_SEQUENCE events
WeightedOrSequence(events, rules) ==
    SelectSeq(events, LAMBDA e : rules[e] # NoWeight \/ IsSequenceRule(e))
\* the fired data rules of a row without the rules that have no weight
WeightedFired(fired) ==
    [cells |-> [c \in DOMAIN fired.cells |->
                   [fired.cells[c] EXCEPT
                       !.agreements = Weighted(@, fuzzy_rules.cell.data)]],
     line |-> Weighted(fired.line, fuzzy_rules.line.data)]
\* the fired not-data rules of a row without the rules that have no weight
WeightedNotFired(not_fired) ==
    [cells |-> [c \in DOMAIN not_fired.cells |->
                   [not_fired.cells[c] EXCEPT
                       !.disagreements = Weighted(@, fuzzy_rules.cell.not_data)]],
     line |-> Weighted(not_fired.line, fuzzy_rules.line.not_data)]
\* the same, with the ADJACENT_ARITHMETIC_SEQUENCE events kept
WeightedOrSequenceNotFired(not_fired) ==
    [WeightedNotFired(not_fired) EXCEPT
        !.line = WeightedOrSequence(not_fired.line, fuzzy_rules.line.not_data)]
\* the confidences get_class_confidences gives for these fired rules
ConfidencesFor(drf, ndrf) ==
    LET scored == get_class_confidences(drf, ndrf, fuzzy_rules, parameters)
    IN [r \in 1..Len(drf) |->
           <<scored.data_line_confidences[r], scored.not_data_line_confidences[r]>>]
\* the confidences the walk gives for these fired rules
WalkConfidencesFor(fired, not_fired) ==
    LET evidence == WalkEvidence(fired, not_fired, fuzzy_rules, parameters)
    IN <<probabilistic_sum(evidence.is_data), probabilistic_sum(evidence.not_data)>>

UpToFirstCounts ==
    /\ fuzzy_rules.line.not_data["UP_TO_FIRST_COLUMN_COMPLETE_CONSISTENTLY"] # NoWeight
    /\ fuzzy_rules.line.not_data["UP_TO_FIRST_COLUMN_COMPLETE_CONSISTENTLY"][1]
          > parameters.not_data_weight_lower_bound
\* row r fired the rule
FiredUpToFirst(r) ==
    \E i \in DOMAIN not_data_rules_fired[r].line :
        not_data_rules_fired[r].line[i] = "UP_TO_FIRST_COLUMN_COMPLETE_CONSISTENTLY"
\* a row above row r was scored as data
DataAbove(r) ==
    \E k \in 1..(r - 1) : label_confidences[k][1] > label_confidences[k][2]
\* line_not_data_evidence of row r had the row not fired the rule
NotDataEvidenceWithout(r) ==
    RowEvidence(data_rules_fired,
                [not_data_rules_fired EXCEPT ![r].line = OtherNotDataEvents(@)],
                ConfidencesAbove(r, 1), ConfidencesAbove(r, 2), r, fuzzy_rules,
                parameters).not_data
\* line_not_data_evidence of the row of the walk had the row not fired the rule
WalkNotDataEvidenceWithout ==
    WalkEvidence(walk.data_rules_fired,
                 [walk.not_data_rules_fired EXCEPT !.line = OtherNotDataEvents(@)],
                 fuzzy_rules, parameters).not_data

\* C34: once a row of a get_class_confidences scan has been scored as
\* data, UP_TO_FIRST_COLUMN_COMPLETE_CONSISTENTLY adds no not-data evidence to
\* any later row, and it adds none to a row scored by the walk.
C34_UpToFirstOnlyBeforeData ==
    /\ Scoring =>
           \A r \in ScoredRowIndexes :
               DataAbove(r) => EvidenceOf(r).not_data = NotDataEvidenceWithout(r)
    /\ WalkScored => WalkEvidenceOf.not_data = WalkNotDataEvidenceWithout

\* the rule counts in the catalogue; the first row fired it and got its
\* weight as evidence and was scored as data all the same; the second row
\* fired it too
C34_Witness ==
    /\ Scoring
    /\ UpToFirstCounts
    /\ Len(data_rules_fired) >= 2
    /\ FiredUpToFirst(1)
    /\ EvidenceOf(1).not_data # NotDataEvidenceWithout(1)
    /\ DataAbove(2)
    /\ FiredUpToFirst(2)

\* the walk scored a row that fired the rule, under a catalogue in which
\* the rule counts
C34_WalkWitness ==
    /\ WalkScored
    /\ UpToFirstCounts
    /\ \E i \in DOMAIN walk.not_data_rules_fired.line :
          walk.not_data_rules_fired.line[i] = "UP_TO_FIRST_COLUMN_COMPLETE_CONSISTENTLY"


(* ------------------------------ termination ---------------------------- *)
\* discover_next_table has returned a table in this step
Discovered == pc = "walked" /\ found' # None
\* the remainder of the grid is empty
RemainderEmpty == {r \in Rows : r >= file_offset} = {}
\* extract_tables has returned
Done == pc = "done"

\* a discovery sets file_offset to data_end + 1, beyond the file_offset before
OffsetPastDataEnd ==
    Discovered =>
        /\ file_offset' = discovered_table'.data_end + 1
        /\ file_offset' > file_offset
\* a call of discover_next_table on an empty remainder, or one that finds no
\* first data line, ends extract_tables
EndsWithoutFirstLine ==
    (pc = "discover" /\ (RemainderEmpty \/ pc' # "walk")) => Done'

\* C35: extract_tables terminates on every grid: every discovery, merged
\* or not, sets file_offset to data_end + 1, which is greater than the
\* file_offset before, and the loop ends as soon as the remainder is empty or
\* holds no first data line.
C35_ExtractTerminates ==
    /\ [][OffsetPastDataEnd /\ EndsWithoutFirstLine]_vars
    /\ <>Done

\* extract_tables has returned after two discoveries, the second of which
\* was merged into the first
C35_Witness ==
    /\ Done
    /\ table_counter = 2
    /\ DOMAIN discovered_tables = {1}
    /\ in_loop
    /\ file_offset = discovered_tables[1].data_end + 1
    /\ \E r \in blank_lines :
          discovered_tables[1].data_start < r /\ r < discovered_tables[1].data_end

(* --------------------------- a file that fails ------------------------- *)
\* the for loop over the pool has been left, at its end or by an exception
LoopLeft == pc \in {"reduce", "raised"}
Succeeded == {task \in Tasks : call.files[task] = "ok"}
Collected ==
    {call.combined_data[i].datafile_key : i \in DOMAIN call.combined_data}

\* C36: a file that fails is a failure value of that file only: the loop over
\* the pool is not left by an exception, it goes over every file, and when it
\* is left the results collected are those of the files that succeeded, in
\* whatever order the workers ended
C36_FailureStaysWithItsFile ==
    /\ pc # "raised"
    /\ LoopLeft => (call.pbar = NINPUTS /\ Collected = Succeeded)

(* ------------------------- a blank line below -------------------------- *)
WalkEnded == pc = "walked"
BlanksBelow(r) == {b \in blank_lines : b > r}

\* C37: the walk does not go past a blank line: its last data line is above
\* the first blank line below the first data line, and the record built from
\* it has no blank line after its first data line up to its data_end
C37_WalkStopsAtBlank ==
    /\ WalkEnded =>
          \A b \in BlanksBelow(call.pat_first_data_line) : walk.predicted_ldl < b
    /\ found # None =>
          Range(found.fdl_confidence[2] + 1, found.data_end + 1) \cap blank_lines = {}

\* the walk has ended at a blank line that has a data row below it
C37_Witness ==
    /\ WalkEnded
    /\ \E b \in BlanksBelow(call.pat_first_data_line) :
          /\ walk.predicted_ldl = b - 1
          /\ walk.line_label = b
          /\ (b + 1) \in Rows /\ grid[b + 1] = DataRow

(* --------------------------- the last data line ------------------------ *)
\* the rows the walk took as data: the index of its frame data
AcceptedRows == walk.data_index
\* the walk took no row: its last data line is still the first data line
NoneAccepted ==
    AcceptedRows = {} /\ walk.predicted_ldl = call.pat_first_data_line

\* C38: the last data line the walk returns is a row it accepted as data
C38_LastLineWasAccepted ==
    WalkEnded => walk.predicted_ldl \in AcceptedRows

\* C38, amended: the last data line the walk returns is a row it accepted as
\* data, or the first data line when it accepted no row at all; it is no row
\* put on probation
C38_LastLineAcceptedOrFirst ==
    WalkEnded =>
        /\ walk.predicted_ldl \in AcceptedRows \/ NoneAccepted
        /\ walk.predicted_ldl \notin walk.probation

\* the walk ended below a row on probation and returns the accepted row above it
C38_Witness ==
    /\ WalkEnded
    /\ walk.predicted_ldl \in AcceptedRows
    /\ (walk.predicted_ldl + 1) \in walk.probation
    /\ walk.line_label > walk.predicted_ldl + 1

(* ------------------------ less data evidence --------------------------- *)
\* the standalone prediction of the row is DATA and the row above it is not
\* on probation
PredictedData(label) ==
    label = "DATA" /\ (walk.line_label - 1) \notin walk.probation

\* C39: a row that is scored with data_conf < not_data_conf is not accepted
\* as data
C39_LessEvidenceNotAccepted ==
    [][\A data_conf \in 0..MaxConf, not_data_conf \in 0..MaxConf :
       \A label \in {"DATA", "NOT_DATA"} :
          (/\ ScoredWith(data_conf, not_data_conf, label)
           /\ data_conf < not_data_conf)
              => ~Accepted]_vars

\* C39, amended: a row that is scored with data_conf < not_data_conf is not
\* accepted as data, unless it is as wide as the widest accepted row right
\* below an accepted row, or its standalone prediction is DATA and the row
\* above it is not on probation
C39_LessEvidenceAcceptedByRule ==
    [][\A data_conf \in 0..MaxConf, not_data_conf \in 0..MaxConf :
       \A label \in {"DATA", "NOT_DATA"} :
          (/\ ScoredWith(data_conf, not_data_conf, label)
           /\ data_conf < not_data_conf
           /\ ~AsWideAsData
           /\ ~PredictedData(label))
              => ~Accepted]_vars

\* a row narrower than the data was scored with less data evidence than
\* not-data evidence, was not accepted, and the walk has ended at it
C39_Witness ==
    /\ WalkEnded
    /\ walk.line_counter > ForcedLines
    /\ walk.line_label \in Rows
    /\ walk.line_label \notin blank_lines
    /\ walk.line_label \notin walk.data_index
    /\ walk.line_label \notin walk.predicted_pat_sub_headers
    /\ (walk.line_label - 1) \in walk.probation
    /\ ~AllNull(grid[walk.line_label])
    /\ ~in_headers_discovered(grid[walk.line_label])
    /\ ~(NarrowRow(grid[walk.line_label]) /\ NarrowFootnote(grid[walk.line_label]))
    /\ non_empty_values(grid[walk.line_label]) # Max(walk.certain_data_widths)

(* ------------------------------- the merge ----------------------------- *)
\* discover_next_table returns a table to the while loop of extract_tables
NewTable == pc = "walked" /\ in_loop /\ found' # None
\* the table was merged into its predecessor: table_counter was taken back
Merged == table_counter' = table_counter
\* the table has no header row that is not a blank line
NoHeaderRow(table) == \A h \in ToSet(table.header) : h \in blank_lines

\* C40: a new table is merged into its predecessor exactly when it has no
\* header row that is not blank, whatever the other rows between the data_end
\* of the predecessor and its data_start are
C40_MergedIffNoHeader ==
    [][NewTable => (Merged <=> NoHeaderRow(found'))]_vars

\* a table was merged into its predecessor over a row above its data that is
\* neither blank nor a header row
C40_Witness ==
    /\ in_loop /\ found # None
    /\ (table_counter - 1) \in DOMAIN discovered_tables
    /\ discovered_tables[table_counter - 1].data_end = found.data_end
    /\ discovered_tables[table_counter - 1].data_start < found.top_boundary
    /\ \E r \in Range(found.top_boundary, found.data_start) : r \notin blank_lines

====
